---- MODULE Spec2Model ----
(***************************************************************************)
(* State-machine model of the two arcade games of the 16x16 NeoPixel       *)
(* matrix repository: the paddle game (src/pong.py) and the formation      *)
(* shooter (src/space_invaders.py).                                        *)
(*                                                                         *)
(* Floats of the paddle game (ball position and velocity) are modelled in  *)
(* fixed point: an integer n stands for n / Scale cells.  Products that    *)
(* are not representable (vx * 1.05, the rebound angle) are rounded down.  *)
(***************************************************************************)
EXTENDS Integers, Sequences, FiniteSets, TLC

VARIABLES
    pong,       \* fields of the PongGame instance `game` of src/pong.py
    ppc,        \* position of pong.run_game in its loop
    frame,      \* run_game's local `frame`, kept modulo 2 (only frame % 2 is read)
    pin,        \* pong: BUTTONS_ENABLED and the local `buttons_used` of run_game
    pev,        \* pong: what the last update_ball call saw and did
    game,       \* fields of the Game instance `game` of src/space_invaders.py
    ipc,        \* position of space_invaders.run_game in its loop
    iin,        \* shooter: BUTTONS_ENABLED, the buttons held, check_buttons' result
    iev,        \* shooter: what the steps of the current game saw and did
    np,         \* the pixel buffer `np`, slot by slot (Pixel Surface calls)
    px,         \* the last Pixel Surface call and the buffer it found
    scr         \* the display as run_game drives it: what the buffer holds and
                \* what was flushed last (by kind), the show() calls of the tick

pvars == <<pong, ppc, frame, pin, pev>>
ivars == <<game, ipc, iin, iev>>
svars == <<np, px>>
vars == <<pong, ppc, frame, pin, pev, game, ipc, iin, iev, np, px, scr>>

----------------------------------------------------------------------------
(* Program constants, src/pong.py *)
WIDTH == 16
HEIGHT == 16
Scale == 100
paddle_height == 4
winning_score == 5
p1_x == 0
p2_x == WIDTH - 1

Abs(n) == IF n < 0 THEN -n ELSE n
Min(a, b) == IF a < b THEN a ELSE b
Max(a, b) == IF a > b THEN a ELSE b

(* 0.8, 2.0, and n * 1.05 in fixed point *)
ServeSpeed == (8 * Scale) \div 10
MaxSpeed == 2 * Scale
SpeedUp(v) == (v * 105) \div 100

(* sample points of random.uniform(-0.5, 0.5) and random.uniform(-0.4, 0.4) *)
ResetVy == {-(Scale \div 2), 0, Scale \div 2}
ServeVy == {-((4 * Scale) \div 10), 0, (4 * Scale) \div 10}

----------------------------------------------------------------------------
(* Pixel Surface: xy_to_index, scale_color, set_pixel, clear (lines 61-82  *)
(* of both files; the two files differ in set_pixel only).                 *)
NUM_LEDS == WIDTH * HEIGHT

BLACK == <<0, 0, 0>>
WHITE == <<255, 255, 255>>
RED == <<255, 0, 0>>

(* xy_to_index without the serpentine: every row left to right *)
xy_to_index_RowMajor(x, y) ==
    IF x < 0 \/ x >= WIDTH \/ y < 0 \/ y >= HEIGHT
    THEN -1
    ELSE y * WIDTH + x

(* xy_to_index(x, y), lines 61-68 *)
xy_to_index(x, y) ==
    IF x < 0 \/ x >= WIDTH \/ y < 0 \/ y >= HEIGHT
    THEN -1
    ELSE IF y % 2 = 0
         THEN y * WIDTH + x
         ELSE y * WIDTH + (WIDTH - 1 - x)

(* scale_color, lines 70-72: int(c * BRIGHTNESS) with BRIGHTNESS = 0.3 *)
scale_color(color) == [i \in 1 .. 3 |-> (color[i] * 3) \div 10]

(* int(v) of a fixed-point number: Python truncates toward zero *)
int(v) == IF v >= 0 THEN v \div Scale ELSE -((-v) \div Scale)

(* The buffer np has NUM_LEDS slots; it is kept as the function from the  *)
(* slots that are not black to their colours (every other slot is black). *)
Slot(buf, i) == IF i \in DOMAIN buf THEN buf[i] ELSE BLACK

(* np[idx] = c *)
Store(buf, idx, c) ==
    IF c = BLACK
    THEN [i \in DOMAIN buf \ {idx} |-> buf[i]]
    ELSE [i \in DOMAIN buf \cup {idx} |-> IF i = idx THEN c ELSE buf[i]]

(* src/pong.py, set_pixel, lines 74-78: x, y in fixed point *)
set_pixel(buf, x, y, color) ==
    LET idx == xy_to_index(int(x), int(y))
    IN IF idx >= 0 THEN Store(buf, idx, scale_color(color)) ELSE buf

(* src/space_invaders.py, set_pixel, lines 74-78: x, y in cells *)
inv_set_pixel(buf, x, y, color) ==
    LET idx == xy_to_index(x, y)
    IN IF idx >= 0 THEN Store(buf, idx, scale_color(color)) ELSE buf

(* clear(), lines 80-82: np.fill((0, 0, 0)) *)
clear == [i \in {} |-> BLACK]

(* px: fn - the function called last ("none" before the first call); x, y, *)
(* color - its arguments (cells for xy_to_index and the shooter's          *)
(* set_pixel, fixed point for the paddle game's set_pixel); idx - what     *)
(* xy_to_index returned in it; before - the buffer it found; writes - the  *)
(* set_pixel calls since the last clear().                                 *)
NoCall ==
    [fn |-> "none", x |-> 0, y |-> 0, color |-> BLACK, idx |-> -1,
     before |-> clear, writes |-> 0]

(* no Pixel Surface call is tracked while a game loop runs *)
SurfaceIdle == np = clear /\ px = NoCall

----------------------------------------------------------------------------
(* The display in the game loops.  scr.buf is what the buffer holds and    *)
(* scr.strip what show() wrote to the strip last, by kind:                 *)
(*   "black" - every slot black (after clear());                           *)
(*   "frame" - the game's picture, drawn in full on the cleared buffer in  *)
(*             the current tick;                                           *)
(*   "old"   - the game's picture of an earlier tick;                      *)
(*   "art"   - anything else (a title, a number, a flash painted over what *)
(*             was there);                                                 *)
(*   "none"  - nothing was flushed yet.                                    *)
(* scr.shows counts the show() calls of the current tick and scr.frames    *)
(* those of them that wrote a "frame"; cut and lit are the position at     *)
(* which KeyboardInterrupt arrived and what the strip showed then.         *)
ScrInit ==
    [buf |-> "black", strip |-> "none", shows |-> 0, frames |-> 0,
     cut |-> "none", lit |-> "none"]

(* clear(): np.fill((0, 0, 0)) *)
Cleared(s) == [s EXCEPT !.buf = "black"]

(* set_pixel calls that draw the whole game on the buffer *)
Framed(s) == [s EXCEPT !.buf = IF s.buf = "black" THEN "frame" ELSE "art"]

(* any other set_pixel calls *)
Painted(s) == [s EXCEPT !.buf = "art"]

(* show(): np.write() *)
Shown(s) ==
    [s EXCEPT !.strip = s.buf,
              !.shows = @ + 1,
              !.frames = @ + (IF s.buf = "frame" THEN 1 ELSE 0)]

(* the top of the inner while loop: a new tick *)
NewTick(s) ==
    [s EXCEPT !.shows = 0, !.frames = 0,
              !.buf = IF @ = "frame" THEN "old" ELSE @,
              !.strip = IF @ = "frame" THEN "old" ELSE @]

(* outside the inner while loop no tick is running *)
OutOfTick(s) == [s EXCEPT !.shows = 0, !.frames = 0]

(* draw_game without the clear() *)
draw_game_NoClear(s) == Shown(Framed(s))

(* src/pong.py, lines 168-194 *)
draw_game(s) == Shown(Framed(Cleared(s)))

(* src/pong.py, lines 335-352: two rounds of flash, show, clear, show *)
show_score_effect(s) ==
    Shown(Cleared(Shown(Painted(Shown(Cleared(Shown(Painted(s))))))))

(* update_ball, lines 257-270: show_score_effect() when a point is scored; *)
(* g is the ball as the scoring test finds it                              *)
ScoreFlash(g, s) ==
    IF g.ball_x <= 0 \/ g.ball_x >= (WIDTH - 1) * Scale
    THEN show_score_effect(s) ELSE s

(* src/pong.py, lines 382-424; the 16 flushes of the ball animation show  *)
(* the same kind of picture as the last one                                *)
show_title(s) == OutOfTick(Shown(Painted(Cleared(s))))

(* src/pong.py, lines 426-455: the numbers, then GO!, clear(), show() *)
show_countdown(s) == OutOfTick(Shown(Cleared(Shown(Painted(Cleared(s))))))

(* src/pong.py, lines 354-380: fill, then flashes ending in clear(), show() *)
show_winner(s) == OutOfTick(Shown(Cleared(Shown(Painted(s)))))

(* src/space_invaders.py, lines 440-470: the face, then the numbers *)
inv_show_title(s) == OutOfTick(Shown(Painted(Cleared(Shown(Painted(Cleared(s)))))))

(* src/space_invaders.py, lines 416-426 *)
show_victory(s) == OutOfTick(Shown(Painted(s)))

(* src/space_invaders.py, lines 395-414: flashes, then the X *)
show_game_over(s) ==
    OutOfTick(Shown(Painted(Cleared(Shown(Cleared(Shown(Painted(s))))))))

(* the handler without the flush *)
on_interrupt_NoShow(s) == Cleared(s)

(* except KeyboardInterrupt: clear(); show() (pong 504-507, shooter 529-532) *)
on_interrupt(s) == Shown(Cleared(s))

----------------------------------------------------------------------------
(* PongGame.reset, with the two random draws as parameters *)
PongReset(dir, vy) ==
    [p1_y |-> (HEIGHT - paddle_height) \div 2,
     p2_y |-> (HEIGHT - paddle_height) \div 2,
     ball_x |-> (WIDTH \div 2) * Scale,
     ball_y |-> (HEIGHT \div 2) * Scale,
     ball_vx |-> dir * ServeSpeed,
     ball_vy |-> vy,
     p1_score |-> 0,
     p2_score |-> 0,
     game_over |-> FALSE,
     winner |-> 0,              \* 0 stands for None
     rally_count |-> 0]

(* PongGame.reset_ball(direction), random vy as a parameter *)
reset_ball(g, direction, vy) ==
    [g EXCEPT !.ball_x = (WIDTH \div 2) * Scale,
              !.ball_y = (HEIGHT \div 2) * Scale,
              !.ball_vx = direction * ServeSpeed,
              !.ball_vy = vy,
              !.rally_count = 0]

(* move_paddle without the test of the upper limit *)
move_paddle_NoUpperLimit(g, paddle, direction) ==
    IF paddle = 1
    THEN LET new_y == g.p1_y + direction
         IN IF 0 <= new_y THEN [g EXCEPT !.p1_y = new_y] ELSE g
    ELSE LET new_y == g.p2_y + direction
         IN IF 0 <= new_y THEN [g EXCEPT !.p2_y = new_y] ELSE g

(* move_paddle(paddle, direction) *)
move_paddle(g, paddle, direction) ==
    IF paddle = 1
    THEN LET new_y == g.p1_y + direction
         IN IF 0 <= new_y /\ new_y <= HEIGHT - paddle_height
            THEN [g EXCEPT !.p1_y = new_y] ELSE g
    ELSE LET new_y == g.p2_y + direction
         IN IF 0 <= new_y /\ new_y <= HEIGHT - paddle_height
            THEN [g EXCEPT !.p2_y = new_y] ELSE g

(* update_ball, lines 216-218: integration *)
Integrate(g) ==
    [g EXCEPT !.ball_x = @ + g.ball_vx, !.ball_y = @ + g.ball_vy]

(* WallBounce that clamps y but leaves vy as it was *)
WallBounce_NoReflect(g) ==
    IF g.ball_y <= 0
    THEN [g EXCEPT !.ball_y = 0]
    ELSE IF g.ball_y >= (HEIGHT - 1) * Scale
         THEN [g EXCEPT !.ball_y = (HEIGHT - 1) * Scale]
         ELSE g

(* WallBounce that reflects vy but leaves y where integration put it *)
WallBounce_NoClamp(g) ==
    IF g.ball_y <= 0
    THEN [g EXCEPT !.ball_vy = Abs(g.ball_vy)]
    ELSE IF g.ball_y >= (HEIGHT - 1) * Scale
         THEN [g EXCEPT !.ball_vy = -Abs(g.ball_vy)]
         ELSE g

(* update_ball, lines 220-226: top/bottom wall *)
WallBounce(g) ==
    IF g.ball_y <= 0
    THEN [g EXCEPT !.ball_y = 0, !.ball_vy = Abs(g.ball_vy)]
    ELSE IF g.ball_y >= (HEIGHT - 1) * Scale
         THEN [g EXCEPT !.ball_y = (HEIGHT - 1) * Scale, !.ball_vy = -Abs(g.ball_vy)]
         ELSE g

(* (hit_pos - 0.5) * 1.5 with hit_pos = (ball_y - paddle_y) / paddle_height *)
HitAngle(ball_y, paddle_y) ==
    ((ball_y - paddle_y * Scale) * 15) \div (paddle_height * 10) - (75 * Scale) \div 100

(* update_ball, lines 228-240: left paddle *)
Paddle1Hit(g) ==
    g.ball_x <= (p1_x + 1) * Scale /\ g.ball_vx < 0
    /\ g.p1_y * Scale <= g.ball_y /\ g.ball_y <= (g.p1_y + paddle_height - 1) * Scale

Paddle1Collision(g) ==
    IF Paddle1Hit(g)
    THEN [g EXCEPT !.ball_x = (p1_x + 1) * Scale,
                   !.ball_vx = Min(SpeedUp(Abs(g.ball_vx)), MaxSpeed),
                   !.ball_vy = HitAngle(g.ball_y, g.p1_y),
                   !.rally_count = @ + 1]
    ELSE g

(* update_ball, lines 242-254: right paddle *)
Paddle2Hit(g) ==
    g.ball_x >= (p2_x - 1) * Scale /\ g.ball_vx > 0
    /\ g.p2_y * Scale <= g.ball_y /\ g.ball_y <= (g.p2_y + paddle_height - 1) * Scale

(* Paddle2Collision without the limit of 2.0 *)
Paddle2Collision_NoLimit(g) ==
    IF Paddle2Hit(g)
    THEN [g EXCEPT !.ball_x = (p2_x - 1) * Scale,
                   !.ball_vx = -SpeedUp(Abs(g.ball_vx)),
                   !.ball_vy = HitAngle(g.ball_y, g.p2_y),
                   !.rally_count = @ + 1]
    ELSE g

Paddle2Collision(g) ==
    IF Paddle2Hit(g)
    THEN [g EXCEPT !.ball_x = (p2_x - 1) * Scale,
                   !.ball_vx = -Min(SpeedUp(Abs(g.ball_vx)), MaxSpeed),
                   !.ball_vy = HitAngle(g.ball_y, g.p2_y),
                   !.rally_count = @ + 1]
    ELSE g

(* the ball as the scoring test of update_ball finds it (line 256) *)
BeforeScoring(g) == Paddle2Collision(Paddle1Collision(WallBounce(Integrate(g))))

(* Scoring with the match ending only above winning_score *)
Scoring_LateEnd(g, vy) ==
    IF g.ball_x <= 0
    THEN LET s == [g EXCEPT !.p2_score = @ + 1]
         IN IF s.p2_score > winning_score
            THEN [s EXCEPT !.game_over = TRUE, !.winner = 2]
            ELSE reset_ball(s, 1, vy)
    ELSE IF g.ball_x >= (WIDTH - 1) * Scale
         THEN LET s == [g EXCEPT !.p1_score = @ + 1]
              IN IF s.p1_score > winning_score
                 THEN [s EXCEPT !.game_over = TRUE, !.winner = 1]
                 ELSE reset_ball(s, -1, vy)
         ELSE g

(* Scoring with strict comparisons at the two goal lines *)
Scoring_StrictEdge(g, vy) ==
    IF g.ball_x < 0
    THEN LET s == [g EXCEPT !.p2_score = @ + 1]
         IN IF s.p2_score >= winning_score
            THEN [s EXCEPT !.game_over = TRUE, !.winner = 2]
            ELSE reset_ball(s, 1, vy)
    ELSE IF g.ball_x > (WIDTH - 1) * Scale
         THEN LET s == [g EXCEPT !.p1_score = @ + 1]
              IN IF s.p1_score >= winning_score
                 THEN [s EXCEPT !.game_over = TRUE, !.winner = 1]
                 ELSE reset_ball(s, -1, vy)
         ELSE g

(* Scoring with the serve directions exchanged *)
Scoring_ServeSwapped(g, vy) ==
    IF g.ball_x <= 0
    THEN LET s == [g EXCEPT !.p2_score = @ + 1]
         IN IF s.p2_score >= winning_score
            THEN [s EXCEPT !.game_over = TRUE, !.winner = 2]
            ELSE reset_ball(s, -1, vy)
    ELSE IF g.ball_x >= (WIDTH - 1) * Scale
         THEN LET s == [g EXCEPT !.p1_score = @ + 1]
              IN IF s.p1_score >= winning_score
                 THEN [s EXCEPT !.game_over = TRUE, !.winner = 1]
                 ELSE reset_ball(s, 1, vy)
         ELSE g

(* Scoring that credits the point to both players *)
Scoring_BothCredited(g, vy) ==
    IF g.ball_x <= 0
    THEN LET s == [g EXCEPT !.p2_score = @ + 1, !.p1_score = @ + 1]
         IN IF s.p2_score >= winning_score
            THEN [s EXCEPT !.game_over = TRUE, !.winner = 2]
            ELSE reset_ball(s, 1, vy)
    ELSE IF g.ball_x >= (WIDTH - 1) * Scale
         THEN LET s == [g EXCEPT !.p1_score = @ + 1, !.p2_score = @ + 1]
              IN IF s.p1_score >= winning_score
                 THEN [s EXCEPT !.game_over = TRUE, !.winner = 1]
                 ELSE reset_ball(s, -1, vy)
         ELSE g

(* update_ball, lines 256-275: scoring; vy is reset_ball's random draw *)
Scoring(g, vy) ==
    IF g.ball_x <= 0
    THEN LET s == [g EXCEPT !.p2_score = @ + 1]
         IN IF s.p2_score >= winning_score
            THEN [s EXCEPT !.game_over = TRUE, !.winner = 2]
            ELSE reset_ball(s, 1, vy)
    ELSE IF g.ball_x >= (WIDTH - 1) * Scale
         THEN LET s == [g EXCEPT !.p1_score = @ + 1]
              IN IF s.p1_score >= winning_score
                 THEN [s EXCEPT !.game_over = TRUE, !.winner = 1]
                 ELSE reset_ball(s, -1, vy)
         ELSE g

update_ball(g, vy) == Scoring(BeforeScoring(g), vy)

(* the offsets random.randint(-2, 2) can add (0 also stands for no error);  *)
(* the draw is made only for a paddle the ball is coming toward            *)
AiErrors == -2 .. 2

Toward(g, paddle) == IF paddle = 1 THEN g.ball_vx < 0 ELSE g.ball_vx > 0

AiDraws(g, paddle) == IF Toward(g, paddle) THEN AiErrors ELSE {0}

(* ai_control, lines 279-295 / 297-308: one paddle's target and move.      *)
(* toward: the ball is coming toward this paddle; err: the random offset   *)
(* in cells (0 when random.random() >= ai_error).                          *)
AiTarget(g, toward, err) ==
    IF toward
    THEN g.ball_y + g.ball_vy * 3 - (paddle_height \div 2) * Scale + err * Scale
    ELSE ((HEIGHT - paddle_height) \div 2) * Scale

(* AiMove with the two directions exchanged *)
AiMove_Reversed(g, paddle, err) ==
    LET y == IF paddle = 1 THEN g.p1_y ELSE g.p2_y
        target_y == AiTarget(g, Toward(g, paddle), err)
    IN IF y * Scale < target_y THEN move_paddle(g, paddle, -1)
       ELSE IF y * Scale > target_y THEN move_paddle(g, paddle, 1)
       ELSE g

AiMove(g, paddle, err) ==
    LET y == IF paddle = 1 THEN g.p1_y ELSE g.p2_y
        target_y == AiTarget(g, Toward(g, paddle), err)
    IN IF y * Scale < target_y THEN move_paddle(g, paddle, 1)
       ELSE IF y * Scale > target_y THEN move_paddle(g, paddle, -1)
       ELSE g

ai_control(g, err1, err2) == AiMove(AiMove(g, 1, err1), 2, err2)

(* longest rally explored: update_ball is not taken past MaxRally paddle hits *)
MaxRally == 2

(* check_buttons, lines 312-330: b is the set of buttons that read 0; the *)
(* player holds the same buttons for the whole run                        *)
PongButtons == {"p1_up", "p1_down", "p2_up", "p2_down"}

PressMove(g, b, name, paddle, direction) ==
    IF name \in b THEN move_paddle(g, paddle, direction) ELSE g

check_buttons(g, b) ==
    PressMove(PressMove(PressMove(PressMove(g, b, "p1_up", 1, -1),
                                  b, "p1_down", 1, 1),
                        b, "p2_up", 2, -1),
              b, "p2_down", 2, 1)

(* check_buttons, lines 317-328: the number of move_paddle calls one call  *)
(* of check_buttons makes for a paddle (one per pressed button of it)      *)
PaddleMoveCalls(b, paddle) ==
    Cardinality(b \cap (IF paddle = 1 THEN {"p1_up", "p1_down"}
                                     ELSE {"p2_up", "p2_down"}))

(* pev: the ball as the scoring test of the last update_ball call found it *)
(* and the scores before that call; vy_before, vx_before - the velocity    *)
(* the call started with; wall_vy - vy after the wall handling; hit - the  *)
(* paddle (1 or 2) the call found hit, 0 for none; hit_vx - vx after the   *)
(* paddle handling; calls = 0 when no call was made yet.                   *)
NoEvent ==
    [calls |-> 0, x |-> 0, y |-> 0, p1_before |-> 0, p2_before |-> 0,
     vy_before |-> 0, vx_before |-> 0, wall_vy |-> 0, hit |-> 0, hit_vx |-> 0]

----------------------------------------------------------------------------
(* Formation shooter, src/space_invaders.py.                               *)
(*                                                                         *)
(* The monotonic clock is kept as the two differences the code reads,      *)
(* since_move = ticks_diff(ticks_ms(), last_alien_move) and since_shot =   *)
(* ticks_diff(ticks_ms(), last_alien_shot), saturated at SinceCap (no      *)
(* interval the code compares them with exceeds it).  reset() sets both    *)
(* timestamps to 0, long before the first tick (the title screen alone     *)
(* sleeps for 4.1 s), so both differences start saturated.                 *)
TickMs == 50
SinceCap == 1500
MaxPlayerBullets == 3
MaxAlienBullets == 5
BottomRow == HEIGHT - 2

Living(aliens) == {i \in DOMAIN aliens : aliens[i].alive}

(* Game.spawn_aliens, lines 142-160: the roster of a level, row by row *)
SpawnRows(level) == Min(3 + level \div 2, 5)
SpawnCols(level) == Min(6 + level, 11)

SpawnRoster(level) ==
    LET rows == SpawnRows(level)
        cols == SpawnCols(level)
        start_x == (WIDTH - cols * 2) \div 2 + 1
        start_y == 1
        all == [i \in 1 .. rows * cols |->
                  [x |-> start_x + ((i - 1) % cols) * 2,
                   y |-> start_y + ((i - 1) \div cols) * 2,
                   alive |-> TRUE,
                   type |-> ((i - 1) \div cols) % 3]]
        OnGrid(a) == a.x < WIDTH - 1
    IN SelectSeq(all, OnGrid)

(* Game.spawn_aliens, lines 140-163 *)
spawn_aliens(g) ==
    [g EXCEPT !.aliens = SpawnRoster(g.level),
              !.alien_speed = Max(150, 400 - g.level * 30)]

(* Game.reset, lines 107-138 *)
GameReset ==
    spawn_aliens(
        [player_x |-> WIDTH \div 2,
         player_y |-> HEIGHT - 1,
         player_alive |-> TRUE,
         player_bullets |-> <<>>,
         alien_bullets |-> <<>>,
         aliens |-> <<>>,
         alien_direction |-> 1,
         score |-> 0,
         level |-> 1,
         game_over |-> FALSE,
         victory |-> FALSE,
         since_move |-> SinceCap,
         since_shot |-> SinceCap,
         alien_speed |-> 400,
         auto_fire_cooldown |-> 0])

(* move_player without the test of the right limit *)
move_player_NoRightLimit(g, direction) ==
    LET new_x == g.player_x + direction
    IN IF 1 <= new_x THEN [g EXCEPT !.player_x = new_x] ELSE g

(* move_player(direction), lines 206-210 *)
move_player(g, direction) ==
    LET new_x == g.player_x + direction
    IN IF 1 <= new_x /\ new_x <= WIDTH - 2
       THEN [g EXCEPT !.player_x = new_x] ELSE g

(* fire_player with the limit off by one *)
fire_player_OneTooMany(g) ==
    IF Len(g.player_bullets) <= MaxPlayerBullets
    THEN [g EXCEPT !.player_bullets = Append(@, <<g.player_x, g.player_y - 2>>)]
    ELSE g

(* fire_player, lines 212-215 *)
fire_player(g) ==
    IF Len(g.player_bullets) < MaxPlayerBullets
    THEN [g EXCEPT !.player_bullets = Append(@, <<g.player_x, g.player_y - 2>>)]
    ELSE g

(* move_bullets keeping an alien bullet that reached y = HEIGHT *)
move_bullets_KeepsRowBelow(g) ==
    LET up == [i \in DOMAIN g.player_bullets |->
                 <<g.player_bullets[i][1], g.player_bullets[i][2] - 1>>]
        down == [i \in DOMAIN g.alien_bullets |->
                   <<g.alien_bullets[i][1], g.alien_bullets[i][2] + 1>>]
        OnTop(b) == b[2] >= 0
        AboveBottom(b) == b[2] <= HEIGHT
    IN [g EXCEPT !.player_bullets = SelectSeq(up, OnTop),
                 !.alien_bullets = SelectSeq(down, AboveBottom)]

(* move_bullets, lines 217-233 *)
move_bullets(g) ==
    LET up == [i \in DOMAIN g.player_bullets |->
                 <<g.player_bullets[i][1], g.player_bullets[i][2] - 1>>]
        down == [i \in DOMAIN g.alien_bullets |->
                   <<g.alien_bullets[i][1], g.alien_bullets[i][2] + 1>>]
        OnTop(b) == b[2] >= 0
        AboveBottom(b) == b[2] < HEIGHT
    IN [g EXCEPT !.player_bullets = SelectSeq(up, OnTop),
                 !.alien_bullets = SelectSeq(down, AboveBottom)]

(* move_aliens, line 239: the interval test *)
MoveEligible(g) == g.since_move >= g.alien_speed

(* HitEdge without the test of the direction of travel *)
HitEdge_AnyMargin(g) ==
    \E i \in Living(g.aliens) :
        g.aliens[i].x <= 1 \/ g.aliens[i].x >= WIDTH - 2

(* HitEdge with both margins one column further out *)
HitEdge_OneColumnLate(g) ==
    \E i \in Living(g.aliens) :
        \/ g.aliens[i].x <= 0 /\ g.alien_direction = -1
        \/ g.aliens[i].x >= WIDTH - 1 /\ g.alien_direction = 1

(* move_aliens, lines 244-254 *)
HitEdge(g) ==
    \E i \in Living(g.aliens) :
        \/ g.aliens[i].x <= 1 /\ g.alien_direction = -1
        \/ g.aliens[i].x >= WIDTH - 2 /\ g.alien_direction = 1

(* Landing with the threshold one row too low *)
Landing_RowTooLow(g) == {i \in Living(g.aliens) : g.aliens[i].y + 1 >= HEIGHT - 1}

(* move_aliens, lines 259-265: the living aliens that reach the bottom     *)
(* threshold when dropped; the loop returns at the first of them           *)
Landing(g) == {i \in Living(g.aliens) : g.aliens[i].y + 1 >= BottomRow}

FirstOf(S) == CHOOSE i \in S : \A j \in S : i <= j

(* DropAndReverse that leaves alien_direction as it is *)
DropAndReverse_NoReverse(g) ==
    LET last == IF Landing(g) = {} THEN Len(g.aliens) ELSE FirstOf(Landing(g))
    IN [g EXCEPT !.aliens = [i \in DOMAIN g.aliens |->
                               IF g.aliens[i].alive /\ i <= last
                               THEN [g.aliens[i] EXCEPT !.y = @ + 1]
                               ELSE g.aliens[i]],
                 !.game_over = IF Landing(g) = {} THEN g.game_over ELSE TRUE]

DropAndReverse(g) ==
    LET last == IF Landing(g) = {} THEN Len(g.aliens) ELSE FirstOf(Landing(g))
    IN [g EXCEPT !.alien_direction = -g.alien_direction,
                 !.aliens = [i \in DOMAIN g.aliens |->
                               IF g.aliens[i].alive /\ i <= last
                               THEN [g.aliens[i] EXCEPT !.y = @ + 1]
                               ELSE g.aliens[i]],
                 !.game_over = IF Landing(g) = {} THEN g.game_over ELSE TRUE]

(* move_aliens, lines 267-270 *)
MoveSideways(g) ==
    [g EXCEPT !.aliens = [i \in DOMAIN g.aliens |->
                            IF g.aliens[i].alive
                            THEN [g.aliens[i] EXCEPT !.x = @ + g.alien_direction]
                            ELSE g.aliens[i]]]

(* move_aliens, lines 235-270 *)
move_aliens(g) ==
    IF ~MoveEligible(g) THEN g
    ELSE LET t == [g EXCEPT !.since_move = 0]
         IN IF HitEdge(t) THEN DropAndReverse(t) ELSE MoveSideways(t)

(* alien_shoot, lines 276-277 *)
ShootInterval(g) == Max(500, 1500 - g.level * 100)
ShootEligible(g) == g.since_shot >= ShootInterval(g)

(* BottomAliens with the comparison of y turned around *)
BottomAliens_TopOfColumn(g) ==
    {i \in Living(g.aliens) :
        \A j \in Living(g.aliens) :
            g.aliens[j].x = g.aliens[i].x =>
                \/ g.aliens[j].y > g.aliens[i].y
                \/ g.aliens[j].y = g.aliens[i].y /\ i <= j}

(* alien_shoot, lines 283-292: per column x, the living alien with the     *)
(* greatest y (the first such in roster order)                             *)
BottomAliens(g) ==
    {i \in Living(g.aliens) :
        \A j \in Living(g.aliens) :
            g.aliens[j].x = g.aliens[i].x =>
                \/ g.aliens[j].y < g.aliens[i].y
                \/ g.aliens[j].y = g.aliens[i].y /\ i <= j}

(* alien_shoot, lines 272-297; shooter is random.choice's pick *)
alien_shoot(g, shooter) ==
    IF ~ShootEligible(g) THEN g
    ELSE LET t == [g EXCEPT !.since_shot = 0]
         IN IF shooter \in BottomAliens(t) /\ Len(t.alien_bullets) < MaxAlienBullets
            THEN [t EXCEPT !.alien_bullets =
                     Append(@, <<t.aliens[shooter].x, t.aliens[shooter].y + 1>>)]
            ELSE t

(* the picks random.choice can make; 0 when there is nothing to pick from *)
ShooterChoices(g) ==
    IF ShootEligible(g) /\ BottomAliens(g) # {} THEN BottomAliens(g) ELSE {0}

(* list.remove(e): drops the first element equal to e, if there is one *)
RemoveFirst(q, e) ==
    IF \E i \in DOMAIN q : q[i] = e
    THEN LET k == FirstOf({i \in DOMAIN q : q[i] = e})
         IN [i \in 1 .. Len(q) - 1 |-> IF i < k THEN q[i] ELSE q[i + 1]]
    ELSE q

(* Near that takes only a bullet in the alien's own cell *)
Near_SameCell(ax, ay, bx, by) == bx = ax /\ by = ay

(* check_collisions, line 308 *)
Near(ax, ay, bx, by) == Abs(bx - ax) <= 1 /\ Abs(by - ay) <= 1

(* Targets without the test of alive *)
Targets_AnyAlien(aliens, b) ==
    {i \in DOMAIN aliens : Near(aliens[i].x, aliens[i].y, b[1], b[2])}

Targets(aliens, b) ==
    {i \in Living(aliens) : Near(aliens[i].x, aliens[i].y, b[1], b[2])}

(* check_collisions, lines 315-318 *)
SpeedAfterKill(aliens, speed) ==
    LET alive_count == Cardinality(Living(aliens))
    IN IF alive_count > 0
       THEN Max(80, (400 * alive_count) \div Len(aliens))
       ELSE speed

(* BulletHit awarding 10 * type *)
BulletHit_TypePoints(g, b) ==
    IF Targets(g.aliens, b) = {} THEN g
    ELSE LET k == FirstOf(Targets(g.aliens, b))
             killed == [g.aliens EXCEPT ![k].alive = FALSE]
         IN [g EXCEPT !.aliens = killed,
                      !.player_bullets = RemoveFirst(@, b),
                      !.score = @ + 10 * g.aliens[k].type,
                      !.alien_speed = SpeedAfterKill(killed, @)]

(* check_collisions, lines 302-319: one player bullet against the roster *)
BulletHit(g, b) ==
    IF Targets(g.aliens, b) = {} THEN g
    ELSE LET k == FirstOf(Targets(g.aliens, b))
             killed == [g.aliens EXCEPT ![k].alive = FALSE]
         IN [g EXCEPT !.aliens = killed,
                      !.player_bullets = RemoveFirst(@, b),
                      !.score = @ + 10 * (g.aliens[k].type + 1),
                      !.alien_speed = SpeedAfterKill(killed, @)]

RECURSIVE PlayerBulletsHit(_, _)
PlayerBulletsHit(g, todo) ==
    IF todo = <<>> THEN g
    ELSE PlayerBulletsHit(BulletHit(g, Head(todo)), Tail(todo))

(* check_collisions, lines 322-324 *)
PlayerHit(g) ==
    \E i \in DOMAIN g.alien_bullets :
        Near(g.player_x, g.player_y, g.alien_bullets[i][1], g.alien_bullets[i][2])

(* VictoryCheck left out *)
VictoryCheck_Never(g) == g

(* VictoryCheck with any() in place of all() *)
VictoryCheck_AnyDead(g) ==
    IF \E i \in DOMAIN g.aliens : ~g.aliens[i].alive
    THEN [g EXCEPT !.victory = TRUE] ELSE g

(* check_collisions, lines 329-331 *)
VictoryCheck(g) ==
    IF Living(g.aliens) = {} THEN [g EXCEPT !.victory = TRUE] ELSE g

(* check_collisions without the return after the player is hit *)
check_collisions_NoReturn(g) ==
    LET t == PlayerBulletsHit(g, g.player_bullets)
    IN IF PlayerHit(t)
       THEN VictoryCheck([t EXCEPT !.player_alive = FALSE, !.game_over = TRUE])
       ELSE VictoryCheck(t)

(* check_collisions, lines 299-331 *)
check_collisions(g) ==
    LET t == PlayerBulletsHit(g, g.player_bullets)
    IN IF PlayerHit(t)
       THEN [t EXCEPT !.player_alive = FALSE, !.game_over = TRUE]
       ELSE VictoryCheck(t)

(* auto_play, lines 336-344: x of the nearest living alien (the first of   *)
(* the nearest in roster order), or player_x when none lives               *)
NearestAlienX(g) ==
    LET L == Living(g.aliens)
        D(i) == Abs(g.aliens[i].x - g.player_x)
        best == {i \in L : \A j \in L : D(i) <= D(j)}
    IN IF L = {} THEN g.player_x ELSE g.aliens[FirstOf(best)].x

(* auto_play, lines 347-354 *)
Incoming(g) ==
    {i \in DOMAIN g.alien_bullets :
        g.alien_bullets[i][2] > HEIGHT - 4 /\ Abs(g.alien_bullets[i][1] - g.player_x) < 2}

AutoTarget(g) ==
    IF Incoming(g) = {} THEN NearestAlienX(g)
    ELSE IF g.alien_bullets[FirstOf(Incoming(g))][1] <= g.player_x
         THEN g.player_x + 2
         ELSE g.player_x - 2

(* AutoFire that waits one call less after a fire *)
AutoFire_ShortCooldown(g) ==
    LET t == [g EXCEPT !.auto_fire_cooldown = Max(@ - 1, 0)]
    IN IF t.auto_fire_cooldown <= 0
          /\ \E i \in Living(t.aliens) : Abs(t.aliens[i].x - t.player_x) <= 1
       THEN [fire_player(t) EXCEPT !.auto_fire_cooldown = 2]
       ELSE t

(* auto_play, lines 363-369.  The countdown is only ever compared with 0  *)
(* (line 364); it is kept at 0 once it has run out, where the program lets *)
(* it fall without limit while no alien is in line.                        *)
AutoFire(g) ==
    LET t == [g EXCEPT !.auto_fire_cooldown = Max(@ - 1, 0)]
    IN IF t.auto_fire_cooldown <= 0
          /\ \E i \in Living(t.aliens) : Abs(t.aliens[i].x - t.player_x) <= 1
       THEN [fire_player(t) EXCEPT !.auto_fire_cooldown = 3]
       ELSE t

(* lines 366-368 were run by the auto_play call that took before to after: *)
(* only they raise the countdown                                           *)
AutoFired(before, after) == after.auto_fire_cooldown > before.auto_fire_cooldown

(* auto_play, lines 333-369 *)
auto_play(g) ==
    LET target_x == AutoTarget(g)
        moved == IF g.player_x < target_x THEN move_player(g, 1)
                 ELSE IF g.player_x > target_x THEN move_player(g, -1)
                 ELSE g
    IN AutoFire(moved)

(* The player of a run has one grip, a set of buttons pressed together,   *)
(* and either holds it or lets go of all buttons; between two samples the  *)
(* player switches at most MaxChanges times in a run.  Without buttons     *)
(* (BUTTONS_ENABLED false) nothing is sampled.                             *)
MaxChanges == 1

Samples(in) ==
    IF in.BUTTONS_ENABLED /\ in.changes < MaxChanges THEN {in.grip, {}} ELSE {in.held}

(* the sprites, lines 96-98, as sets of offsets *)
ALIEN_SPRITE_1 == {<<-1, 0>>, <<0, 0>>, <<1, 0>>, <<-1, -1>>, <<1, -1>>}
ALIEN_SPRITE_2 == {<<-1, 0>>, <<0, 0>>, <<1, 0>>, <<0, -1>>}
ALIEN_SPRITE_3 == {<<0, 0>>, <<-1, -1>>, <<1, -1>>}

Sprite(type) ==
    IF type = 0 THEN ALIEN_SPRITE_1
    ELSE IF type = 1 THEN ALIEN_SPRITE_2 ELSE ALIEN_SPRITE_3

(* draw_aliens, lines 178-196: its set_pixel calls, each with the alien   *)
(* it is made for                                                         *)
draw_aliens(g) ==
    UNION {{[alien |-> i, x |-> g.aliens[i].x + d[1], y |-> g.aliens[i].y + d[2]] :
              d \in Sprite(g.aliens[i].type)} : i \in Living(g.aliens)}

(* check_buttons, lines 371-387: b is the set of buttons that read 0 *)
InvButtons == {"left", "right", "fire"}

(* inv_check_buttons with the three tests chained by elif *)
inv_check_buttons_Elif(g, b) ==
    IF "left" \in b THEN move_player(g, -1)
    ELSE IF "right" \in b THEN move_player(g, 1)
    ELSE IF "fire" \in b THEN fire_player(g) ELSE g

inv_check_buttons(g, b) ==
    LET l == IF "left" \in b THEN move_player(g, -1) ELSE g
        r == IF "right" \in b THEN move_player(l, 1) ELSE l
    IN IF "fire" \in b THEN fire_player(r) ELSE r

(* check_buttons, lines 377-385: the number of move_player calls and of    *)
(* fire_player calls one call of check_buttons makes                       *)
ShipMoveCalls(b) == Cardinality(b \cap {"left", "right"})
ShipFireCalls(b) == Cardinality(b \cap {"fire"})

(* run_game, lines 517-524: the level-cleared branch *)
NextLevel(g) ==
    LET t == spawn_aliens([g EXCEPT !.level = @ + 1,
                                    !.victory = FALSE,
                                    !.game_over = FALSE])
    IN [t EXCEPT !.player_bullets = <<>>, !.alien_bullets = <<>>]

----------------------------------------------------------------------------
(* pong.run_game, lines 466-499 *)

(* the paddle game when the other program is the one that runs *)
PongIdle ==
    /\ pong = PongReset(1, 0)
    /\ ppc = "off"
    /\ frame = 0
    /\ pin = [BUTTONS_ENABLED |-> FALSE, held |-> {}, buttons_used |-> FALSE,
              ai_errs |-> 0]
    /\ pev = NoEvent

(* iev: step, prev - the position the last step of run_game was taken     *)
(* from and the Game fields it found; drawn - the set_pixel calls of       *)
(* draw_aliens in that step; landed - a drop of move_aliens took           *)
(* a living alien to the bottom threshold in this game; hit -              *)
(* check_collisions found an alien bullet within distance 1 of the player  *)
(* in this game; cleared - the level of the victory run_game handled last  *)
(* (0: none since the last game over); quiet, quiet_game - the auto_play   *)
(* calls made without a fire since the last fire of auto_play, in the run  *)
(* and in this game (2: two or more, or no fire yet).                      *)
NoInvEvent ==
    [step |-> "none", prev |-> GameReset, landed |-> FALSE, hit |-> FALSE,
     cleared |-> 0, drawn |-> {}, quiet |-> 2, quiet_game |-> 2]

Seen == [iev EXCEPT !.step = ipc, !.prev = game, !.drawn = {}]

(* the shooter when the other program is the one that runs *)
InvIdle ==
    /\ game = GameReset
    /\ ipc = "off"
    /\ iev = NoInvEvent
    /\ iin = [BUTTONS_ENABLED |-> FALSE, grip |-> {}, held |-> {}, changes |-> 0,
              button_pressed |-> FALSE]

(* the module-level `game = PongGame()`, before run_game is entered *)
PongInit ==
    /\ \E dir \in {-1, 1}, vy \in ResetVy : pong = PongReset(dir, vy)
    /\ ppc = "title"
    /\ frame = 0
    /\ \E en \in BOOLEAN :
          \E b \in (IF en THEN SUBSET PongButtons ELSE {{}}) :
             pin = [BUTTONS_ENABLED |-> en, held |-> b, buttons_used |-> FALSE,
                    ai_errs |-> 0]
    /\ pev = NoEvent
    /\ InvIdle
    /\ SurfaceIdle /\ scr = ScrInit

(* line 469: show_title() *)
PongShowTitle ==
    /\ ppc = "title"
    /\ ppc' = "countdown"
    /\ scr' = show_title(scr)
    /\ UNCHANGED <<pong, frame, pin, pev, ivars, svars>>

(* line 472: show_countdown() *)
PongShowCountdown ==
    /\ ppc = "countdown"
    /\ ppc' = "reset"
    /\ scr' = show_countdown(scr)
    /\ UNCHANGED <<pong, frame, pin, pev, ivars, svars>>

(* line 475: game.reset(); frame = 0 *)
PongResetGame ==
    /\ ppc = "reset"
    /\ \E dir \in {-1, 1}, vy \in ResetVy : pong' = PongReset(dir, vy)
    /\ ppc' = "input"
    /\ frame' = 0
    /\ pev' = NoEvent
    /\ UNCHANGED <<pin, ivars, svars, scr>>

(* PongCheckButtons with `return True` where no button is wired *)
PongCheckButtons_ReturnsTrue ==
    /\ ppc = "input"
    /\ pong' = IF pin.BUTTONS_ENABLED THEN check_buttons(pong, pin.held) ELSE pong
    /\ pin' = [pin EXCEPT !.buttons_used = ~pin.BUTTONS_ENABLED \/ pin.held # {}]
    /\ ppc' = "ai"
    /\ scr' = NewTick(scr)
    /\ UNCHANGED <<frame, pev, ivars, svars>>

(* line 481: buttons_used = check_buttons() *)
PongCheckButtons ==
    /\ ppc = "input"
    /\ pong' = IF pin.BUTTONS_ENABLED THEN check_buttons(pong, pin.held) ELSE pong
    /\ pin' = [pin EXCEPT !.buttons_used = pin.BUTTONS_ENABLED /\ pin.held # {}]
    /\ ppc' = "ai"
    /\ scr' = NewTick(scr)
    /\ UNCHANGED <<frame, pev, ivars, svars>>

(* PongAiControl deciding for each paddle by that paddle's own buttons *)
PongAiControl_PerPaddle ==
    /\ ppc = "ai"
    /\ IF frame % 2 = 0
       THEN \E err1 \in AiDraws(pong, 1), err2 \in AiDraws(pong, 2) :
               pong' = LET a == IF pin.held \cap {"p1_up", "p1_down"} = {}
                                THEN AiMove(pong, 1, err1) ELSE pong
                       IN IF pin.held \cap {"p2_up", "p2_down"} = {}
                          THEN AiMove(a, 2, err2) ELSE a
       ELSE pong' = pong
    /\ ppc' = "ball"
    /\ UNCHANGED <<frame, pin, pev, ivars, svars, scr>>

(* PongAiControl without the test of buttons_used *)
PongAiControl_IgnoresButtons ==
    /\ ppc = "ai"
    /\ IF frame % 2 = 0
       THEN \E err1 \in AiDraws(pong, 1), err2 \in AiDraws(pong, 2) :
               pong' = ai_control(pong, err1, err2)
       ELSE pong' = pong
    /\ ppc' = "ball"
    /\ UNCHANGED <<frame, pin, pev, ivars, svars, scr>>

(* lines 484-486: ai_control() on even frames without button use *)
PongAiControl ==
    /\ ppc = "ai"
    /\ IF ~pin.buttons_used /\ frame % 2 = 0
       THEN \E err1 \in AiDraws(pong, 1), err2 \in AiDraws(pong, 2) :
               pong' = ai_control(pong, err1, err2)
       ELSE pong' = pong
    /\ ppc' = "ball"
    /\ UNCHANGED <<frame, pin, pev, ivars, svars, scr>>

(* line 489: update_ball(), with what the call saw *)
BallStep ==
    /\ ppc = "ball"
    /\ \E vy \in ServeVy :
          pong' = [update_ball(pong, vy) EXCEPT !.rally_count = Min(@, MaxRally)]
    /\ pev' = [calls |-> 1,
               x |-> BeforeScoring(pong).ball_x,
               y |-> BeforeScoring(pong).ball_y,
               p1_before |-> pong.p1_score,
               p2_before |-> pong.p2_score,
               vy_before |-> pong.ball_vy,
               vx_before |-> pong.ball_vx,
               wall_vy |-> WallBounce(Integrate(pong)).ball_vy,
               hit |-> IF BeforeScoring(pong).rally_count = pong.rally_count
                       THEN 0
                       ELSE IF BeforeScoring(pong).ball_vx > 0 THEN 1 ELSE 2,
               hit_vx |-> BeforeScoring(pong).ball_vx]
    /\ ppc' = "draw"
    /\ scr' = ScoreFlash(BeforeScoring(pong), scr)
    /\ UNCHANGED <<frame, pin, ivars, svars>>

(* line 489: update_ball(), in rallies of up to MaxRally paddle hits *)
PongUpdateBall ==
    /\ pong.rally_count < MaxRally
    /\ BallStep

(* lines 492-496 and the loop test of line 479 *)
PongDraw ==
    /\ ppc = "draw"
    /\ frame' = (frame + 1) % 2
    /\ ppc' = IF pong.game_over THEN "winner" ELSE "input"
    /\ pev' = NoEvent
    /\ scr' = draw_game(scr)
    /\ UNCHANGED <<pong, pin, ivars, svars>>

(* line 499: show_winner(game.winner), then the outer loop starts over *)
PongShowWinner ==
    /\ ppc = "winner"
    /\ ppc' = "title"
    /\ scr' = show_winner(scr)
    /\ UNCHANGED <<pong, frame, pin, pev, ivars, svars>>

PongNext ==
    \/ PongShowTitle
    \/ PongShowCountdown
    \/ PongResetGame
    \/ PongCheckButtons
    \/ PongAiControl
    \/ PongUpdateBall
    \/ PongDraw
    \/ PongShowWinner

SpecPong == PongInit /\ [][PongNext]_vars

----------------------------------------------------------------------------
(* The demo match: no buttons are wired (BUTTONS_ENABLED false), both      *)
(* paddles are played by ai_control, rallies of any length (rally_count,   *)
(* which the program only writes, is counted up to MaxRally).  Of the      *)
(* random.randint offsets of a run at most MaxAiErrs are non-zero.         *)
MaxAiErrs == 1

Erring(err) == IF err = 0 THEN 0 ELSE 1

PongInitDemo ==
    /\ \E dir \in {-1, 1}, vy \in ResetVy : pong = PongReset(dir, vy)
    /\ ppc = "title"
    /\ frame = 0
    /\ pin = [BUTTONS_ENABLED |-> FALSE, held |-> {}, buttons_used |-> FALSE,
              ai_errs |-> 0]
    /\ pev = NoEvent
    /\ InvIdle
    /\ SurfaceIdle /\ scr = ScrInit

(* lines 484-486 *)
PongAiControlDemo ==
    /\ ppc = "ai"
    /\ IF ~pin.buttons_used /\ frame % 2 = 0
       THEN \E err1 \in AiDraws(pong, 1), err2 \in AiDraws(pong, 2) :
               /\ pin.ai_errs + Erring(err1) + Erring(err2) <= MaxAiErrs
               /\ pong' = ai_control(pong, err1, err2)
               /\ pin' = [pin EXCEPT !.ai_errs = @ + Erring(err1) + Erring(err2)]
       ELSE pong' = pong /\ pin' = pin
    /\ ppc' = "ball"
    /\ UNCHANGED <<frame, pev, ivars, svars, scr>>

(* line 489 *)
PongUpdateBallDemo == BallStep

PongNextDemo ==
    \/ PongShowTitle
    \/ PongShowCountdown
    \/ PongResetGame
    \/ PongCheckButtons
    \/ PongAiControlDemo
    \/ PongUpdateBallDemo
    \/ PongDraw
    \/ PongShowWinner

SpecPongDemo == PongInitDemo /\ [][PongNextDemo]_vars

(* the loop of run_game keeps running: no step of it blocks *)
SpecPongDemoLive == SpecPongDemo /\ WF_vars(PongNextDemo)

----------------------------------------------------------------------------
(* Paddle game: scoring and the end of the match *)

Center == [x |-> (WIDTH \div 2) * Scale, y |-> (HEIGHT \div 2) * Scale]

(* the last update_ball call was a score event, of player 1 / of player 2 *)
Scored1 == pev.calls = 1 /\ pong.p1_score # pev.p1_before
Scored2 == pev.calls = 1 /\ pong.p2_score # pev.p2_before

(* C1: game_over is set if and only if p1_score or p2_score has reached    *)
(* winning_score, and when it is set, winner is the side (1 or 2) whose    *)
(* score reached winning_score.                                            *)
C1_GameOverIffWinningScore ==
    /\ pong.game_over <=>
          (pong.p1_score >= winning_score \/ pong.p2_score >= winning_score)
    /\ pong.game_over =>
          \/ pong.winner = 1 /\ pong.p1_score >= winning_score
          \/ pong.winner = 2 /\ pong.p2_score >= winning_score

C1_Witness ==
    pong.game_over /\ pong.winner = 1 /\ pong.p1_score = winning_score
    /\ pong.p2_score > 0

(* C2: in any update_ball call a score event occurs iff the ball's x after *)
(* integration, wall and paddle handling is <= 0 or >= 15; then exactly    *)
(* one score goes up, by exactly 1 (player 2 for x <= 0, player 1 for      *)
(* x >= 15); with no score event neither score changes.                    *)
C2_ScoreEvent ==
    pev.calls = 1 =>
        /\ pev.x <= 0 =>
              pong.p2_score = pev.p2_before + 1 /\ pong.p1_score = pev.p1_before
        /\ pev.x >= (WIDTH - 1) * Scale =>
              pong.p1_score = pev.p1_before + 1 /\ pong.p2_score = pev.p2_before
        /\ (0 < pev.x /\ pev.x < (WIDTH - 1) * Scale) =>
              pong.p1_score = pev.p1_before /\ pong.p2_score = pev.p2_before

C2_Witness == Scored1 /\ pev.x > (WIDTH - 1) * Scale /\ pev.p2_before > 0

(* C3 as claimed: after a score event that does not end the match the ball *)
(* is at the center and vx points toward the side that was scored against  *)
(* (vx < 0 when player 2 scored, vx > 0 when player 1 scored).             *)
C3_TowardScoredAgainst ==
    ((Scored1 \/ Scored2) /\ ~pong.game_over) =>
        /\ pong.ball_x = Center.x /\ pong.ball_y = Center.y
        /\ Scored2 => pong.ball_vx < 0
        /\ Scored1 => pong.ball_vx > 0

(* C3 as amended: after a score event that does not end the match the ball *)
(* is at the center (8, 8) and vx points toward the side that just scored: *)
(* vx = +0.8 when player 2 scored, vx = -0.8 when player 1 scored.         *)
C3_TowardScorer ==
    ((Scored1 \/ Scored2) /\ ~pong.game_over) =>
        /\ pong.ball_x = Center.x /\ pong.ball_y = Center.y
        /\ Scored2 => pong.ball_vx = ServeSpeed
        /\ Scored1 => pong.ball_vx = -ServeSpeed

C3_Witness == Scored2 /\ ~pong.game_over /\ pong.ball_vx > 0 /\ pong.p2_score = 2

----------------------------------------------------------------------------
(* Paddle game: paddles and ball stay on the field *)

PaddleRange == 0 .. HEIGHT - paddle_height

(* C11: both paddles' y stay in 0 .. 16 - paddle_height (= 12) after reset *)
(* and after any sequence of move_paddle calls (buttons or AI); a move     *)
(* that would leave the range changes nothing.                             *)
C11_PaddleInRange ==
    /\ pong.p1_y \in PaddleRange /\ pong.p2_y \in PaddleRange
    /\ \A paddle \in {1, 2}, direction \in {-1, 1} :
          LET y == IF paddle = 1 THEN pong.p1_y ELSE pong.p2_y
          IN IF y + direction \in PaddleRange
             THEN move_paddle(pong, paddle, direction) # pong
             ELSE move_paddle(pong, paddle, direction) = pong

(* the left paddle held at the top and the right one at the bottom, *)
(* with the buttons that push them further still pressed            *)
C11_Witness ==
    /\ pong.p1_y = 0 /\ pong.p2_y = HEIGHT - paddle_height
    /\ ppc = "ai" /\ pin.buttons_used
    /\ "p1_up" \in pin.held /\ "p2_down" \in pin.held

(* C12: after every update_ball call (wall bounce, paddle hit and score    *)
(* included) the ball's y lies in [0, 15].                                 *)
C12_BallYInField ==
    pev.calls = 1 => (0 <= pong.ball_y /\ pong.ball_y <= (HEIGHT - 1) * Scale)

(* a call that took the ball past the bottom wall and clamped it *)
C12_Witness ==
    /\ pev.calls = 1 /\ pev.y = (HEIGHT - 1) * Scale
    /\ pong.ball_y = (HEIGHT - 1) * Scale /\ pong.ball_vy < 0

(* the last update_ball call took the ball to the top / the bottom wall *)
AtTopWall == pev.calls = 1 /\ pev.y = 0
AtBottomWall == pev.calls = 1 /\ pev.y = (HEIGHT - 1) * Scale

(* C13 as claimed: when an update_ball step carries the ball's y across a  *)
(* vertical boundary, vy at the end of the step has the opposite sign of   *)
(* vy at its start and points back into the field (vy >= 0 at the top,     *)
(* vy <= 0 at the bottom).                                                 *)
C13_ReflectedAtEndOfStep ==
    /\ AtTopWall => (pev.vy_before < 0 /\ pong.ball_vy >= 0)
    /\ AtBottomWall => (pev.vy_before > 0 /\ pong.ball_vy <= 0)

(* C13 as amended: when an update_ball step carries the ball's y across a  *)
(* vertical boundary, the wall handling flips the sign of vy exactly once  *)
(* (vy = |vy| at the top, -|vy| at the bottom); that is vy at the end of   *)
(* the step unless the same step also hits a paddle, which recomputes vy   *)
(* from the hit position, or scores, which serves the ball anew.           *)
C13_ReflectedByWall ==
    LET kept == pev.hit = 0 /\ ~Scored1 /\ ~Scored2
    IN /\ AtTopWall =>
             /\ pev.vy_before < 0 /\ pev.wall_vy = -pev.vy_before
             /\ kept => pong.ball_vy = pev.wall_vy
       /\ AtBottomWall =>
             /\ pev.vy_before > 0 /\ pev.wall_vy = -pev.vy_before
             /\ kept => pong.ball_vy = pev.wall_vy

(* a step that reaches the top wall and the left paddle together and  *)
(* leaves vy pointing out of the field                                *)
C13_Witness == AtTopWall /\ pev.hit = 1 /\ pev.wall_vy > 0 /\ pong.ball_vy < 0

(* C14: at every paddle collision |vx| after the collision is >= |vx|      *)
(* before it and <= the maximum speed 2.0, and the sign of vx is reversed  *)
(* (positive after a left-paddle hit, negative after a right-paddle hit).  *)
C14_SpeedAfterHit ==
    pev.hit # 0 =>
        /\ Abs(pev.hit_vx) >= Abs(pev.vx_before)
        /\ Abs(pev.hit_vx) <= MaxSpeed
        /\ pev.hit = 1 => (pev.vx_before < 0 /\ pev.hit_vx > 0)
        /\ pev.hit = 2 => (pev.vx_before > 0 /\ pev.hit_vx < 0)

(* a right-paddle hit of a ball that already moves at the maximum speed *)
C14_Witness ==
    pev.hit = 2 /\ pev.vx_before = MaxSpeed /\ pev.hit_vx = -MaxSpeed

(* C15: in every state of the game loop with game_over true exactly one of *)
(* p1_score and p2_score equals 5 and the other is strictly less than 5;   *)
(* at all times both scores lie in 0 .. 5.                                 *)
C15_FinalScore ==
    /\ pong.p1_score \in 0 .. winning_score
    /\ pong.p2_score \in 0 .. winning_score
    /\ pong.game_over =>
          \/ pong.p1_score = winning_score /\ pong.p2_score < winning_score
          \/ pong.p2_score = winning_score /\ pong.p1_score < winning_score

(* a match player 2 won by 5 to 4 *)
C15_Witness ==
    /\ pong.game_over /\ ppc = "winner"
    /\ pong.p2_score = winning_score /\ pong.p1_score = winning_score - 1

(* C16 as claimed: a match started from reset() and driven only by         *)
(* AI-vs-AI ticks terminates: game_over is eventually reached.             *)
C16_MatchEnds == <>pong.game_over

----------------------------------------------------------------------------
(* space_invaders.run_game, lines 481-527 *)

(* the module-level `game = Game()`, before run_game is entered *)
InvInit ==
    /\ game = GameReset
    /\ ipc = "title"
    /\ \E en \in BOOLEAN :
          \E b \in (IF en THEN SUBSET InvButtons ELSE {{}}) :
             iin = [BUTTONS_ENABLED |-> en, grip |-> b, held |-> b, changes |-> 0,
                    button_pressed |-> FALSE]
    /\ iev = NoInvEvent
    /\ PongIdle
    /\ SurfaceIdle /\ scr = ScrInit

(* line 484: show_title() *)
InvShowTitle ==
    /\ ipc = "title"
    /\ ipc' = "reset"
    /\ scr' = inv_show_title(scr)
    /\ iev' = Seen
    /\ UNCHANGED <<game, iin, pvars, svars>>

(* line 487: game.reset() *)
InvResetGame ==
    /\ ipc = "reset"
    /\ game' = GameReset
    /\ ipc' = "input"
    /\ iev' = [Seen EXCEPT !.landed = FALSE, !.hit = FALSE, !.quiet_game = 2]
    /\ UNCHANGED <<iin, pvars, svars, scr>>

(* lines 492-495: clear(); check_buttons() *)
InvCheckButtons ==
    /\ ipc = "input"
    /\ \E b \in Samples(iin) :
          /\ game' = IF iin.BUTTONS_ENABLED THEN inv_check_buttons(game, b) ELSE game
          /\ iin' = [iin EXCEPT !.held = b,
                                !.changes = IF b = iin.held THEN @ ELSE @ + 1,
                                !.button_pressed = iin.BUTTONS_ENABLED /\ b # {}]
    /\ ipc' = "auto"
    /\ iev' = Seen
    /\ scr' = Cleared(NewTick(scr))
    /\ UNCHANGED <<pvars, svars>>

(* lines 495-496: auto_play() unless a button was pressed *)
InvAutoPlay ==
    /\ ipc = "auto"
    /\ game' = IF iin.button_pressed THEN game ELSE auto_play(game)
    /\ ipc' = "bullets"
    /\ iev' = IF iin.button_pressed THEN Seen
              ELSE IF AutoFired(game, auto_play(game))
                   THEN [Seen EXCEPT !.quiet = 0, !.quiet_game = 0]
                   ELSE [Seen EXCEPT !.quiet = Min(@ + 1, 2),
                                     !.quiet_game = Min(@ + 1, 2)]
    /\ UNCHANGED <<iin, pvars, svars, scr>>

(* line 499 *)
InvMoveBullets ==
    /\ ipc = "bullets"
    /\ game' = move_bullets(game)
    /\ ipc' = "aliens"
    /\ iev' = Seen
    /\ UNCHANGED <<iin, pvars, svars, scr>>

(* line 500 *)
InvMoveAliens ==
    /\ ipc = "aliens"
    /\ game' = move_aliens(game)
    /\ ipc' = "shoot"
    /\ iev' = [Seen EXCEPT !.landed =
                 /\ game.since_move >= game.alien_speed
                 /\ \E i \in Living(game.aliens) :
                       \/ game.aliens[i].x <= 1 /\ game.alien_direction = -1
                       \/ game.aliens[i].x >= WIDTH - 2 /\ game.alien_direction = 1
                 /\ \E i \in Living(game.aliens) : game.aliens[i].y + 1 >= HEIGHT - 2]
    /\ UNCHANGED <<iin, pvars, svars, scr>>

(* line 501 *)
InvAlienShoot ==
    /\ ipc = "shoot"
    /\ \E shooter \in ShooterChoices(game) : game' = alien_shoot(game, shooter)
    /\ ipc' = "collide"
    /\ iev' = Seen
    /\ UNCHANGED <<iin, pvars, svars, scr>>

(* line 502 *)
InvCheckCollisions ==
    /\ ipc = "collide"
    /\ game' = check_collisions(game)
    /\ ipc' = "draw"
    /\ iev' = [Seen EXCEPT !.hit =
                 \E i \in DOMAIN game.alien_bullets :
                    /\ Abs(game.alien_bullets[i][1] - game.player_x) <= 1
                    /\ Abs(game.alien_bullets[i][2] - game.player_y) <= 1]
    /\ UNCHANGED <<iin, pvars, svars, scr>>

(* lines 505-514 and the loop test of line 490: draw, show, sleep 50 ms *)
InvDraw ==
    /\ ipc = "draw"
    /\ game' = [game EXCEPT !.since_move = Min(@ + TickMs, SinceCap),
                            !.since_shot = Min(@ + TickMs, SinceCap)]
    /\ ipc' = IF game.game_over \/ game.victory THEN "end" ELSE "input"
    /\ iev' = [Seen EXCEPT !.drawn = draw_aliens(game)]
    /\ scr' = Shown(Framed(scr))
    /\ UNCHANGED <<iin, pvars, svars>>

(* lines 517-527: level cleared, or game over; then the outer loop again *)
InvEndGame ==
    /\ ipc = "end"
    /\ game' = IF game.victory THEN NextLevel(game) ELSE [game EXCEPT !.level = 1]
    /\ ipc' = "title"
    /\ iev' = [Seen EXCEPT !.cleared = IF game.victory THEN game.level ELSE 0]
    /\ scr' = IF game.victory THEN show_victory(scr) ELSE show_game_over(scr)
    /\ UNCHANGED <<iin, pvars, svars>>

InvNext ==
    \/ InvShowTitle
    \/ InvResetGame
    \/ InvCheckButtons
    \/ InvAutoPlay
    \/ InvMoveBullets
    \/ InvMoveAliens
    \/ InvAlienShoot
    \/ InvCheckCollisions
    \/ InvDraw
    \/ InvEndGame

SpecInv == InvInit /\ [][InvNext]_vars

(* The demo game: no buttons are wired (BUTTONS_ENABLED false), the ship   *)
(* is played by auto_play.  The loop of run_game keeps running, and every  *)
(* pass of it takes 50 ms of the clock.                                    *)
InvInitDemo ==
    /\ game = GameReset
    /\ ipc = "title"
    /\ iin = [BUTTONS_ENABLED |-> FALSE, grip |-> {}, held |-> {}, changes |-> 0,
              button_pressed |-> FALSE]
    /\ iev = NoInvEvent
    /\ PongIdle
    /\ SurfaceIdle /\ scr = ScrInit

(* every step of InvNext moves run_game on to its next position *)
InvPositions ==
    {"title", "reset", "input", "auto", "bullets", "aliens", "shoot", "collide", "draw", "end"}

InvLoopRuns == ipc' \in InvPositions

SpecInvDemoLive == InvInitDemo /\ [][InvNext]_vars /\ WF_ipc(InvLoopRuns)

----------------------------------------------------------------------------
(* Formation shooter: the ends of a game *)

Playing == {"input", "auto", "bullets", "aliens", "shoot", "collide", "draw"}

(* C4: game_over becomes true in a tick if and only if, in that tick, a   *)
(* living alien's row reaches the bottom threshold (y >= 14 after a drop)  *)
(* or an alien bullet is within Chebyshev distance 1 of the player when    *)
(* collisions are checked; nothing else sets game_over.                    *)
C4_GameOverPaths == game.game_over <=> (iev.landed \/ iev.hit)

C4_Witness == game.game_over /\ iev.landed /\ ~iev.hit /\ ipc = "draw"

(* C5 as claimed: victory is set at the end of a tick if and only if no    *)
(* alien is alive at the end of that tick's collision check.               *)
C5_VictoryIffNoneAlive ==
    ipc = "draw" => (game.victory <=> Living(game.aliens) = {})

(* C5 as amended: victory is set at the end of a tick if and only if no    *)
(* alien is alive at the end of that tick's collision check and that check *)
(* found no alien bullet within distance 1 of the player (a hit player     *)
(* ends the check before victory is evaluated).                            *)
C5_VictoryUnlessHit ==
    ipc = "draw" => (game.victory <=> (Living(game.aliens) = {} /\ ~iev.hit))

C5_Witness ==
    /\ ipc = "draw" /\ iev.hit /\ ~game.victory
    /\ Living(game.aliens) = {} /\ Living(iev.prev.aliens) # {}

(* C6 as claimed: every playing tick that follows a victory at level L     *)
(* runs with level = L + 1.                                                *)
C6_NextLevelPlayed ==
    (ipc \in Playing /\ iev.cleared > 0) => game.level = iev.cleared + 1

(* C7 as claimed: spawn_aliens produces a roster whose living-alien count  *)
(* is rows x columns of the level, rows = min(3 + level div 2, 5), columns *)
(* = min(6 + level, 11); the respawn after a victory leaves both bullet    *)
(* lists empty.                                                            *)
C7_SpawnCount ==
    (iev.step = "reset" \/ (iev.step = "end" /\ iev.prev.victory)) =>
        /\ Cardinality(Living(game.aliens)) =
              Min(3 + game.level \div 2, 5) * Min(6 + game.level, 11)
        /\ iev.step = "end" => game.player_bullets = <<>> /\ game.alien_bullets = <<>>

(* C8: game_over and victory are never both true. *)
C8_NotBoth == ~(game.game_over /\ game.victory)

C8_Witness ==
    /\ ipc = "draw" /\ game.game_over /\ iev.hit
    /\ Living(game.aliens) = {} /\ Cardinality(Living(iev.prev.aliens)) = 1

(* some living alien is at a horizontal margin in the direction of travel *)
AtMargin(g) ==
    \E i \in DOMAIN g.aliens :
        /\ g.aliens[i].alive
        /\ \/ g.aliens[i].x <= 1 /\ g.alien_direction = -1
           \/ g.aliens[i].x >= 14 /\ g.alien_direction = 1

(* some alien of the roster went down one row *)
Dropped(before, after) ==
    \E i \in DOMAIN before.aliens : after.aliens[i].y = before.aliens[i].y + 1

(* C9: on every eligible formation-movement step, reversal-and-drop happens *)
(* if and only if some living alien is at a horizontal margin in the       *)
(* direction of travel (x <= 1 going left, x >= 14 going right); then      *)
(* alien_direction is negated, and on every other step it is unchanged.    *)
C9_ReverseIffAtMargin ==
    LET p == iev.prev
    IN IF iev.step = "aliens" /\ p.since_move >= p.alien_speed
       THEN /\ AtMargin(p) <=> Dropped(p, game)
            /\ AtMargin(p) => game.alien_direction = -p.alien_direction
            /\ ~AtMargin(p) => game.alien_direction = p.alien_direction
       ELSE iev.step \notin {"none", "reset"} =>
               game.alien_direction = p.alien_direction

C9_Witness ==
    /\ iev.step = "aliens" /\ iev.prev.alien_direction = -1
    /\ game.alien_direction = 1
    /\ \E i \in DOMAIN game.aliens : ~game.aliens[i].alive

(* the dead aliens of a roster, the aliens a step killed, their points *)
Dead(g) == {i \in DOMAIN g.aliens : ~g.aliens[i].alive}

Killed(before, after) == {i \in DOMAIN before.aliens :
                            before.aliens[i].alive /\ ~after.aliens[i].alive}

RECURSIVE Points(_, _)
Points(aliens, S) ==
    IF S = {} THEN 0
    ELSE LET i == CHOOSE j \in S : TRUE
         IN 10 * (aliens[i].type + 1) + Points(aliens, S \ {i})

(* C10: an alien with alive = false stays not-alive and where it is until  *)
(* the next formation spawn; it is not drawn, takes no player bullet and   *)
(* awards no points, does not trigger the edge reversal or the bottom      *)
(* game over, is not the shooter, is not what autoplay moves to or fires   *)
(* at, and does not prevent victory.                                       *)
C10_DeadAlienExcluded ==
    LET p == iev.prev
        L == {i \in DOMAIN p.aliens : p.aliens[i].alive}
        Respawn == iev.step \in {"none", "reset"} \/ (iev.step = "end" /\ p.victory)
    IN /\ ~Respawn => \A i \in Dead(p) : game.aliens[i] = p.aliens[i]
       /\ iev.step = "draw" => \A w \in iev.drawn : p.aliens[w.alien].alive
       /\ iev.step = "collide" =>
            /\ Len(game.player_bullets) =
                  Len(p.player_bullets) - Cardinality(Killed(p, game))
            /\ game.score = p.score + Points(p.aliens, Killed(p, game))
       /\ (iev.step = "aliens" /\ p.since_move >= p.alien_speed) =>
            /\ game.alien_direction # p.alien_direction <=> AtMargin(p)
            /\ game.game_over => \E i \in L : p.aliens[i].y + 1 >= 14
       /\ (iev.step = "shoot" /\ Len(game.alien_bullets) > Len(p.alien_bullets)) =>
            \E i \in L : game.alien_bullets[Len(game.alien_bullets)] =
                            <<p.aliens[i].x, p.aliens[i].y + 1>>
       /\ (iev.step = "auto" /\ ~iin.button_pressed) =>
            /\ (game.player_x # p.player_x
                /\ ~\E k \in DOMAIN p.alien_bullets :
                       p.alien_bullets[k][2] > 12
                       /\ Abs(p.alien_bullets[k][1] - p.player_x) < 2) =>
                  \E i \in L :
                     /\ (p.aliens[i].x - p.player_x) * (game.player_x - p.player_x) > 0
                     /\ \A j \in L : Abs(p.aliens[i].x - p.player_x)
                                        <= Abs(p.aliens[j].x - p.player_x)
            /\ Len(game.player_bullets) > Len(p.player_bullets) =>
                  \E i \in L : Abs(p.aliens[i].x - game.player_x) <= 1
       /\ (iev.step = "collide" /\ Living(game.aliens) = {} /\ ~iev.hit) => game.victory

(* a player bullet passes a dead alien at distance <= 1 and stays in flight *)
C10_Witness ==
    /\ iev.step = "collide"
    /\ \E b \in DOMAIN game.player_bullets :
          /\ \E k \in DOMAIN iev.prev.player_bullets :
                iev.prev.player_bullets[k] = game.player_bullets[b]
          /\ \E i \in Dead(iev.prev) :
                /\ Abs(game.player_bullets[b][1] - game.aliens[i].x) <= 1
                /\ Abs(game.player_bullets[b][2] - game.aliens[i].y) <= 1

----------------------------------------------------------------------------
(* Formation shooter: the demo game ends *)

(* C17: a game at level 1 played by auto_play, with the clock advancing,   *)
(* eventually reaches victory or game_over: no run stays in the playing    *)
(* loop forever.                                                           *)
C17_AutoplayGameEnds ==
    (ipc = "input" /\ game.level = 1) ~> (game.game_over \/ game.victory)

(* an autoplay game that ended with every alien shot *)
C17_Witness ==
    /\ ipc = "end" /\ game.victory /\ game.level = 1
    /\ ~iin.BUTTONS_ENABLED /\ ~iev.landed /\ ~iev.hit

----------------------------------------------------------------------------
(* The board runs one of the two programs (each file ends in run_game()) *)
Init == PongInit \/ InvInit

Next == PongNext \/ InvNext

Spec == Init /\ [][Next]_vars

(* C18: in both games autoplay/AI is invoked in a tick only when no button *)
(* intent was produced in that tick: in a tick with a button intent the    *)
(* AI step moves no paddle and the autoplay step neither moves the ship    *)
(* nor fires.                                                              *)
C18_AutoplayYieldsToButtons ==
    [][/\ (ppc = "ai" /\ pin.buttons_used) => pong' = pong
       /\ (ipc = "auto" /\ iin.button_pressed) => game' = game]_vars

(* player 1 alone pressed a button on an even frame, and the AI step that  *)
(* was skipped would have moved the right paddle                           *)
C18_Witness ==
    /\ ppc = "ball" /\ frame = 0 /\ pin.buttons_used
    /\ pin.held \subseteq {"p1_up", "p1_down"}
    /\ AiMove(pong, 2, 0) # pong

(* C19 as claimed: in every tick each controllable actor (each paddle, the *)
(* ship) receives exactly one directional decision, a single move of -1, 0 *)
(* or +1, and the ship at most one fire action, for every combination of   *)
(* simultaneously pressed buttons.                                         *)
C19_OneDecisionPerActor ==
    /\ (ppc = "ai" /\ pin.BUTTONS_ENABLED) =>
          \A paddle \in {1, 2} : PaddleMoveCalls(pin.held, paddle) <= 1
    /\ (ipc = "auto" /\ iin.BUTTONS_ENABLED) =>
          ShipMoveCalls(iin.held) <= 1 /\ ShipFireCalls(iin.held) <= 1

(* C20: there are never more than 3 player bullets in flight; a fire       *)
(* intent (button or autoplay) issued while 3 exist changes nothing, and   *)
(* otherwise it appends exactly one bullet at (player_x, player_y - 2).    *)
C20_PlayerBulletCap ==
    LET p == iev.prev
        button == iev.step = "input" /\ iin.BUTTONS_ENABLED /\ "fire" \in iin.held
        auto == iev.step = "auto" /\ ~iin.button_pressed
                /\ game.auto_fire_cooldown = 3
    IN /\ Len(game.player_bullets) <= 3
       /\ Len(game.player_bullets) = 3 => fire_player(game) = game
       /\ iev.step \in {"input", "auto"} =>
             IF (button \/ auto) /\ Len(p.player_bullets) < 3
             THEN game.player_bullets =
                     Append(p.player_bullets, <<game.player_x, game.player_y - 2>>)
             ELSE game.player_bullets = p.player_bullets

(* the fire button held while 3 player bullets are in flight *)
C20_Witness ==
    /\ iev.step = "input" /\ "fire" \in iin.held
    /\ Len(iev.prev.player_bullets) = 3 /\ Len(game.player_bullets) = 3

----------------------------------------------------------------------------
(* Input without buttons *)

(* C25: if button initialization failed (BUTTONS_ENABLED is false),        *)
(* check_buttons reads no button, applies no move or fire and returns      *)
(* false in every tick, and the tick goes on to the autoplay policy:       *)
(* auto_play() in the shooter, ai_control() (on its frames, the even ones) *)
(* in the paddle game; the loop keeps running.                             *)
C25_NoButtonsAutoplay ==
    [][/\ (ppc = "input" /\ ~pin.BUTTONS_ENABLED) =>
             /\ pong' = pong /\ pin'.held = {} /\ ~pin'.buttons_used
             /\ ppc' = "ai"
       /\ (ppc = "ai" /\ ~pin.BUTTONS_ENABLED) =>
             /\ IF frame % 2 = 0
                THEN \E err1 \in AiDraws(pong, 1), err2 \in AiDraws(pong, 2) :
                        pong' = ai_control(pong, err1, err2)
                ELSE pong' = pong
             /\ ppc' = "ball"
       /\ (ipc = "input" /\ ~iin.BUTTONS_ENABLED) =>
             /\ game' = game /\ iin'.held = {} /\ ~iin'.button_pressed
             /\ ipc' = "auto"
       /\ (ipc = "auto" /\ ~iin.BUTTONS_ENABLED) =>
             /\ game' = auto_play(game)
             /\ ipc' = "bullets"]_vars

(* without buttons, the AI has taken the right paddle off its center *)
C25_Witness ==
    /\ ~pin.BUTTONS_ENABLED /\ ppc = "ball" /\ ~pin.buttons_used
    /\ pong.p2_y # (HEIGHT - paddle_height) \div 2

----------------------------------------------------------------------------
(* The formation step *)

(* C26: on a reversal-and-drop step every living alien's y increases by    *)
(* exactly 1 and no alien's x changes; on every other eligible formation   *)
(* step every living alien's x changes by exactly alien_direction and no   *)
(* alien's y changes.                                                      *)
C26_WholeFormationMoves ==
    LET p == iev.prev
    IN (iev.step = "aliens" /\ p.since_move >= p.alien_speed) =>
          IF AtMargin(p)
          THEN \A i \in DOMAIN p.aliens :
                  /\ game.aliens[i].x = p.aliens[i].x
                  /\ p.aliens[i].alive => game.aliens[i].y = p.aliens[i].y + 1
          ELSE \A i \in DOMAIN p.aliens :
                  /\ game.aliens[i].y = p.aliens[i].y
                  /\ p.aliens[i].alive =>
                        game.aliens[i].x = p.aliens[i].x + p.alien_direction

(* C27: after every kill that leaves at least one alien alive,             *)
(* alien_speed is no greater than it was before the kill (starting from    *)
(* the spawn value max(150, 400 - 30 * level)) and never below 80.         *)
C27_KillNeverSlows ==
    LET p == iev.prev
    IN (/\ iev.step = "collide"
        /\ Killed(p, game) # {}
        /\ Living(game.aliens) # {}) =>
          /\ game.alien_speed <= p.alien_speed
          /\ game.alien_speed >= 80

----------------------------------------------------------------------------
(* The paddle AI *)

PaddleY(g, paddle) == IF paddle = 1 THEN g.p1_y ELSE g.p2_y

PaddleButtons(paddle) ==
    IF paddle = 1 THEN {"p1_up", "p1_down"} ELSE {"p2_up", "p2_down"}

(* a button of this paddle was read as pressed in this tick *)
ManualIntent(paddle) ==
    pin.BUTTONS_ENABLED /\ pin.held \cap PaddleButtons(paddle) # {}

(* the AI step moves this paddle as ai_control does *)
AiDrives(paddle) ==
    \E err \in AiDraws(pong, paddle) :
        PaddleY(pong', paddle) = PaddleY(AiMove(pong, paddle, err), paddle)

(* C28 as claimed: AI control is decided per paddle; in a tick in which    *)
(* ai_control is due (an even frame) a paddle is driven by the AI exactly  *)
(* when no manual intent exists for that paddle, so a button pressed for   *)
(* one paddle does not suspend the AI of the other.                        *)
C28_AiPerPaddle ==
    [][(ppc = "ai" /\ frame % 2 = 0) =>
          \A paddle \in {1, 2} :
              IF ManualIntent(paddle)
              THEN PaddleY(pong', paddle) = PaddleY(pong, paddle)
              ELSE AiDrives(paddle)]_vars

(* C28 as amended: AI control is decided for both paddles together; in a   *)
(* tick in which ai_control is due both paddles are driven by the AI when  *)
(* no button at all was read as pressed, and neither is when any button    *)
(* was: a button pressed for one paddle suspends the AI of the other too.  *)
C28_AiForBothOrNeither ==
    [][(ppc = "ai" /\ frame % 2 = 0) =>
          IF ManualIntent(1) \/ ManualIntent(2)
          THEN \A paddle \in {1, 2} : PaddleY(pong', paddle) = PaddleY(pong, paddle)
          ELSE \A paddle \in {1, 2} : AiDrives(paddle)]_vars

(* player 2 alone held a button on an even frame; the left paddle, which   *)
(* has no manual intent, was left where the AI would have moved it from    *)
C28_Witness ==
    /\ ppc = "ball" /\ frame = 0 /\ pin.buttons_used
    /\ pin.held = {"p2_down"}
    /\ AiMove(pong, 1, 0) # pong

(* one step from row y toward the target t (fixed point), unless the step *)
(* would leave [0, HEIGHT - paddle_height]                                 *)
StepToward(y, t) ==
    IF y * Scale < t THEN (IF y + 1 <= HEIGHT - paddle_height THEN y + 1 ELSE y)
    ELSE IF y * Scale > t THEN (IF y - 1 >= 0 THEN y - 1 ELSE y)
    ELSE y

(* the AI step takes this paddle one step toward one of its targets *)
AiSteps(paddle) ==
    \E err \in AiDraws(pong, paddle) :
        PaddleY(pong', paddle) =
            StepToward(PaddleY(pong, paddle),
                       AiTarget(pong, Toward(pong, paddle), err))

(* C29 as claimed: in every tick in which a paddle is under AI control and *)
(* its y differs from the AI's target, the paddle moves exactly one step   *)
(* toward the target in that tick (unless the step would leave [0, 12]);   *)
(* the AI acts once per tick.                                              *)
C29_AiStepsEveryTick ==
    [][(ppc = "ai" /\ ~pin.buttons_used) =>
          \A paddle \in {1, 2} : AiSteps(paddle)]_vars

(* C29 as amended: the AI acts once in every second tick, the ticks with   *)
(* an even frame number; in such a tick a paddle under AI control whose y  *)
(* differs from the AI's target moves exactly one step toward the target   *)
(* (unless the step would leave [0, 12]), and in the ticks between the AI  *)
(* moves no paddle.                                                        *)
C29_AiStepsEverySecondTick ==
    [][(ppc = "ai" /\ ~pin.buttons_used) =>
          IF frame % 2 = 0
          THEN \A paddle \in {1, 2} : AiSteps(paddle)
          ELSE \A paddle \in {1, 2} : PaddleY(pong', paddle) = PaddleY(pong, paddle)]_vars

(* the AI took the right paddle one row up on frame 0 and, still off every *)
(* target, left it there on frame 1                                        *)
C29_Witness ==
    /\ ppc = "ball" /\ frame = 1 /\ ~pin.buttons_used
    /\ pong.p2_y = (HEIGHT - paddle_height) \div 2 - 1
    /\ \A err \in AiDraws(pong, 2) : AiMove(pong, 2, err) # pong

----------------------------------------------------------------------------
(* Buttons held across ticks *)

(* y moved by d unless that leaves [lo, hi] *)
Nudge(y, d, lo, hi) == IF lo <= y + d /\ y + d <= hi THEN y + d ELSE y

(* the intents of the pressed buttons of one axis, applied in the order    *)
(* check_buttons tests them                                                *)
Pressed(y, b, first, second, lo, hi) ==
    LET a == IF first \in b THEN Nudge(y, -1, lo, hi) ELSE y
    IN IF second \in b THEN Nudge(a, 1, lo, hi) ELSE a

----------------------------------------------------------------------------
(* Operations on a finished match *)

(* update_ball() called once more when the match is over (update_ball      *)
(* itself does not test game_over; run_game stops calling it by leaving    *)
(* its loop).  A score above winning_score ends the exploration.           *)
FurtherUpdateBall ==
    /\ ppc = "winner"
    /\ pong.p1_score <= winning_score /\ pong.p2_score <= winning_score
    /\ \E vy \in ServeVy :
          pong' = [update_ball(pong, vy) EXCEPT !.rally_count = Min(@, MaxRally)]
    /\ UNCHANGED <<ppc, frame, pin, pev, ivars, svars, scr>>

PongOverNext == PongNext \/ FurtherUpdateBall

SpecPongOver == PongInit /\ [][PongOverNext]_vars

(* C31: MatchOver is terminal until an explicit reset: once game_over is   *)
(* true in the paddle game, no operation other than reset() changes        *)
(* p1_score, p2_score, winner or game_over (in particular a further        *)
(* update_ball call awards no additional point), and winner is assigned    *)
(* exactly once per match (the only assignment comes with a point).        *)
C31_MatchOverTerminal ==
    [][(pong.game_over /\ ppc # "reset") =>
          /\ pong'.p1_score = pong.p1_score
          /\ pong'.p2_score = pong.p2_score
          /\ pong'.winner = pong.winner
          /\ pong'.game_over = pong.game_over]_vars

----------------------------------------------------------------------------
(* Bullets and aliens *)

(* Chebyshev distance of two cells *)
Cheb(ax, ay, bx, by) == Max(Abs(bx - ax), Abs(by - ay))

(* the elements of a sequence *)
Elems(q) == {q[i] : i \in DOMAIN q}

(* C32: in check_collisions a player bullet hits a living alien exactly    *)
(* when |bx - alien.x| <= 1 and |by - alien.y| <= 1; on a hit that alien   *)
(* becomes dead, that bullet is removed from player_bullets and score      *)
(* increases by exactly 10 * (type + 1); one bullet kills at most one      *)
(* alien, and a bullet that hits nothing stays in the list.                *)
C32_BulletHits ==
    LET p == iev.prev
        K == Killed(p, game)
        gone == Elems(p.player_bullets) \ Elems(game.player_bullets)
    IN iev.step = "collide" =>
          /\ \A k \in K : \E b \in gone :
                 Cheb(p.aliens[k].x, p.aliens[k].y, b[1], b[2]) <= 1
          /\ \A b \in gone : \E k \in K :
                 Cheb(p.aliens[k].x, p.aliens[k].y, b[1], b[2]) <= 1
          /\ Cardinality(K) = Cardinality(gone)
          /\ game.score = p.score + Points(p.aliens, K)
          /\ game.player_bullets =
                SelectSeq(p.player_bullets, LAMBDA b : b \notin gone)
          /\ \A b \in Elems(game.player_bullets) :
                 \A i \in Living(game.aliens) :
                    Cheb(game.aliens[i].x, game.aliens[i].y, b[1], b[2]) > 1

(* a bullet killed an alien of the next column while another bullet, near  *)
(* no living alien, stayed                                                 *)
C32_Witness ==
    LET p == iev.prev
        K == Killed(p, game)
        gone == Elems(p.player_bullets) \ Elems(game.player_bullets)
    IN /\ iev.step = "collide" /\ Len(game.player_bullets) >= 1
       /\ \E k \in K : \E b \in gone :
              /\ Cheb(p.aliens[k].x, p.aliens[k].y, b[1], b[2]) = 1
              /\ b[1] # p.aliens[k].x

(* C33: whenever alien_shoot creates a bullet, the shooter is a living     *)
(* alien with the greatest y among the living aliens sharing its x, the    *)
(* bullet starts at (shooter.x, shooter.y + 1), and the number of alien    *)
(* bullets in flight never exceeds 5; alien_shoot creates at most one      *)
(* bullet per shoot interval max(500, 1500 - 100 * level) ms.              *)
C33_AlienFire ==
    LET p == iev.prev
        n == Len(p.alien_bullets)
        new == game.alien_bullets[n + 1]
    IN /\ Len(game.alien_bullets) <= 5
       /\ iev.step = "shoot" =>
             /\ Len(game.alien_bullets) \in {n, n + 1}
             /\ SubSeq(game.alien_bullets, 1, n) = p.alien_bullets
             /\ Len(game.alien_bullets) = n + 1 =>
                   /\ p.since_shot >= Max(500, 1500 - 100 * p.level)
                   /\ game.since_shot = 0
                   /\ \E i \in Living(p.aliens) :
                         /\ new = <<p.aliens[i].x, p.aliens[i].y + 1>>
                         /\ \A j \in Living(p.aliens) :
                               p.aliens[j].x = p.aliens[i].x =>
                                  p.aliens[j].y <= p.aliens[i].y

(* a bullet was created under an alien that has living aliens above it in  *)
(* its column, after another alien of the roster was killed                *)
C33_Witness ==
    LET p == iev.prev
        n == Len(p.alien_bullets)
    IN /\ iev.step = "shoot" /\ Len(game.alien_bullets) = n + 1
       /\ Dead(p) # {}
       /\ \E i, j \in Living(p.aliens) :
             /\ game.alien_bullets[n + 1] = <<p.aliens[i].x, p.aliens[i].y + 1>>
             /\ p.aliens[j].x = p.aliens[i].x /\ p.aliens[j].y < p.aliens[i].y

(* after is before with every y changed by d, without the bullets whose    *)
(* new y is outside 0 .. 15, the others in their order                     *)
Advanced(before, after, d) ==
    LET keep == {i \in DOMAIN before :
                    0 <= before[i][2] + d /\ before[i][2] + d <= 15}
    IN /\ Len(after) = Cardinality(keep)
       /\ \A i \in keep :
             after[Cardinality({j \in keep : j <= i})] =
                <<before[i][1], before[i][2] + d>>

(* C34: each move_bullets call decreases every player bullet's y by        *)
(* exactly 1 and increases every alien bullet's y by exactly 1, leaves     *)
(* every x unchanged and removes exactly the player bullets with new       *)
(* y < 0 and the alien bullets with new y >= 16; hence at every render     *)
(* every bullet in either list has 0 <= y <= 15.                           *)
C34_BulletsAdvance ==
    /\ iev.step = "bullets" =>
          /\ Advanced(iev.prev.player_bullets, game.player_bullets, -1)
          /\ Advanced(iev.prev.alien_bullets, game.alien_bullets, 1)
    /\ ipc = "draw" =>
          \A b \in Elems(game.player_bullets) \cup Elems(game.alien_bullets) :
              0 <= b[2] /\ b[2] <= 15

(* an alien bullet left the bottom edge while a player bullet flew on *)
C34_Witness ==
    /\ iev.step = "bullets"
    /\ \E i \in DOMAIN iev.prev.alien_bullets : iev.prev.alien_bullets[i][2] = 15
    /\ Len(game.alien_bullets) < Len(iev.prev.alien_bullets)
    /\ Len(game.player_bullets) >= 1

----------------------------------------------------------------------------
(* The ship *)

(* some living alien is within one column of the ship *)
InLine(g) == \E i \in Living(g.aliens) : Abs(g.aliens[i].x - g.player_x) <= 1

(* C35 as claimed: the shooter autoplay emits a fire intent in a tick only *)
(* if some living alien is within 1 column of the player's x; after an     *)
(* autoplay fire no autoplay fire occurs in the next 2 autoplay ticks;     *)
(* whenever the cooldown has expired and a living alien is within 1        *)
(* column, a fire intent is emitted in that tick.                          *)
C35_AutoFireGated ==
    [][(ipc = "auto" /\ ~iin.button_pressed) =>
          /\ AutoFired(game, game') => InLine(game') /\ iev.quiet >= 2
          /\ (game.auto_fire_cooldown <= 1 /\ InLine(game')) =>
                AutoFired(game, game')]_vars

(* C35 as amended: as claimed, with the cooldown counted within one game:  *)
(* after an autoplay fire no autoplay fire occurs in the next 2 autoplay   *)
(* ticks of the same game (reset() lets the cooldown expire at once).      *)
C35_AutoFireGatedInGame ==
    [][(ipc = "auto" /\ ~iin.button_pressed) =>
          /\ AutoFired(game, game') => InLine(game') /\ iev.quiet_game >= 2
          /\ (game.auto_fire_cooldown <= 1 /\ InLine(game')) =>
                AutoFired(game, game')]_vars

(* the first autoplay tick of a game is about to fire (the cooldown has    *)
(* expired and an alien is in line) one autoplay tick after the last fire  *)
(* of the game before                                                      *)
C35_Witness ==
    /\ ipc = "auto" /\ ~iin.button_pressed /\ iev.prev = GameReset
    /\ iev.quiet = 1 /\ iev.quiet_game = 2
    /\ AutoFired(game, auto_play(game)) /\ InLine(auto_play(game))

(* move_player(direction) called when the game has ended with the player   *)
(* hit (move_player itself does not test player_alive; run_game makes no   *)
(* such call, its loop has ended)                                          *)
MoveDeadPlayer ==
    /\ ipc = "end" /\ ~game.player_alive
    /\ \E direction \in {-1, 1} : game' = move_player(game, direction)
    /\ UNCHANGED <<ipc, iin, iev, pvars, svars, scr>>

InvOverNext == InvNext \/ MoveDeadPlayer

SpecInvOver == InvInit /\ [][InvOverNext]_vars

(* C36: a move intent applied to a dead player (player_alive = false) is   *)
(* a no-op: move_player leaves player_x and all other game state           *)
(* unchanged (the only steps that change the game of a dead player are     *)
(* those of run_game's end-of-game handling and reset()).                  *)
C36_DeadPlayerStays ==
    [][(~game.player_alive /\ ipc = "end") =>
          \/ game' = game
          \/ ipc' = "title" /\ game' = [game EXCEPT !.level = 1]]_vars

----------------------------------------------------------------------------
(* Score and positions in the shooter *)

(* the points of the dead aliens of the roster *)
DeadPoints(g) == Points(g.aliens, Dead(g))

(* C37 as claimed: in every reachable state of a shooter game since its    *)
(* last reset(), score equals the sum of 10 * (type + 1) over the aliens   *)
(* of the current roster that are dead; score never decreases during a     *)
(* game, and at a level-1 victory score is exactly 420.                    *)
C37_ScoreIsDeadPoints ==
    /\ game.score = DeadPoints(game)
    /\ iev.step \notin {"none", "reset"} => game.score >= iev.prev.score
    /\ (game.victory /\ game.level = 1) => game.score = 420

(* C37 as amended: as claimed, in every state from reset() to the end of   *)
(* the game loop; the handling of a victory then spawns the next roster,   *)
(* all alive, and score keeps its value until the next reset().            *)
C37_ScoreIsDeadPointsInGame ==
    /\ ipc \in Playing \cup {"end"} => game.score = DeadPoints(game)
    /\ (iev.step = "end" /\ iev.prev.victory) =>
          game.score = iev.prev.score /\ Dead(game) = {}
    /\ iev.step \notin {"none", "reset"} => game.score >= iev.prev.score
    /\ (game.victory /\ game.level = 1) => game.score = 420

(* the victory of level 1 was handled: 420 points and a fresh roster *)
C37_Witness ==
    /\ iev.step = "end" /\ iev.prev.victory /\ iev.prev.level = 1
    /\ game.score = 420 /\ Dead(game) = {} /\ Dead(iev.prev) = DOMAIN iev.prev.aliens

(* C38: in a shooter game started by reset() (level 1) every living alien *)
(* satisfies 1 <= x <= 14 and 1 <= y <= 14 in every reachable state, for   *)
(* any sequence of formation steps and kills; so every living alien's      *)
(* sprite lies entirely inside the 16x16 grid.                             *)
C38_AliensOnGrid ==
    \A i \in Living(game.aliens) :
        /\ 1 <= game.aliens[i].x /\ game.aliens[i].x <= 14
        /\ 1 <= game.aliens[i].y /\ game.aliens[i].y <= 14
        /\ \A d \in Sprite(game.aliens[i].type) :
              /\ 0 <= game.aliens[i].x + d[1] /\ game.aliens[i].x + d[1] <= 15
              /\ 0 <= game.aliens[i].y + d[2] /\ game.aliens[i].y + d[2] <= 15

(* after a kill the formation has landed at the right margin *)
C38_Witness ==
    /\ game.level = 1 /\ iev.step = "aliens" /\ Dead(game) # {}
    /\ \E i \in Living(game.aliens) : game.aliens[i].x = 14
    /\ \E i \in Living(game.aliens) : game.aliens[i].y = 14

(* no alien of the roster has moved since reset() spawned it *)
Unmoved(g) ==
    /\ g.level = 1 /\ g.alien_direction = 1
    /\ \A i \in DOMAIN g.aliens :
          /\ g.aliens[i].x = GameReset.aliens[i].x
          /\ g.aliens[i].y = GameReset.aliens[i].y

(* C39: in a shooter game freshly started by reset() (level 1, direction   *)
(* +1, rightmost column spawned at x = 14, movement timer reset to 0) the  *)
(* first formation step is a reversal-and-drop rather than a horizontal    *)
(* move, provided a living alien remains at x = 14: all living aliens go   *)
(* down one row and direction becomes -1 before any alien has moved        *)
(* horizontally.                                                           *)
C39_FirstStepDrops ==
    LET p == iev.prev
    IN /\ \E i \in DOMAIN GameReset.aliens : GameReset.aliens[i].x = 14
       /\ (/\ iev.step = "aliens" /\ Unmoved(p)
           /\ p.since_move >= p.alien_speed
           /\ \E i \in Living(p.aliens) : p.aliens[i].x = 14) =>
             /\ game.alien_direction = -1
             /\ \A i \in DOMAIN p.aliens :
                   /\ game.aliens[i].x = p.aliens[i].x
                   /\ p.aliens[i].alive => game.aliens[i].y = p.aliens[i].y + 1

(* the first formation step of a game, taken in its first tick *)
C39_Witness ==
    /\ iev.step = "aliens" /\ Unmoved(iev.prev)
    /\ iev.prev.since_move >= iev.prev.alien_speed
    /\ game.since_move = 0 /\ game.alien_direction = -1
    /\ \A i \in DOMAIN game.aliens :
          game.aliens[i].alive /\ game.aliens[i].y = GameReset.aliens[i].y + 1

(* C40: in the shooter 1 <= player_x <= 14 holds in every reachable state  *)
(* after reset(), for any sequence of manual moves and autoplay moves      *)
(* (including autoplay dodge targets of player_x +/- 2 that fall outside   *)
(* that range); a move that would leave the range changes nothing, so the  *)
(* 3-pixel-wide ship is always fully on screen.                            *)
C40_ShipOnGrid ==
    LET p == iev.prev
    IN /\ 1 <= game.player_x /\ game.player_x <= 14
       /\ 0 <= game.player_x - 1 /\ game.player_x + 1 <= 15
       /\ (iev.step = "auto" /\ ~iin.button_pressed) =>
             game.player_x =
                IF p.player_x < AutoTarget(p) THEN Nudge(p.player_x, 1, 1, 14)
                ELSE IF p.player_x > AutoTarget(p) THEN Nudge(p.player_x, -1, 1, 14)
                ELSE p.player_x

(* at the right limit autoplay dodged toward x = 16 and the ship stayed *)
C40_Witness ==
    /\ iev.step = "auto" /\ ~iin.button_pressed
    /\ iev.prev.player_x = 14 /\ AutoTarget(iev.prev) = 16
    /\ game.player_x = 14

----------------------------------------------------------------------------
(* The display within a tick *)

(* C23 as claimed: within one tick of either game loop the display is      *)
(* flushed (show) at most once, and that flush happens only after the      *)
(* buffer was cleared and fully redrawn in that tick.                      *)
C23_OneFlushPerTick == scr.shows <= 1 /\ scr.frames = scr.shows

(* C23 as amended: within one tick of either game loop the render step     *)
(* flushes the display exactly once, after the buffer was cleared and      *)
(* fully redrawn in that tick; the only other flushes within a tick are    *)
(* the four of show_score_effect, made by update_ball before the render in *)
(* a paddle-game tick that scores a point (twice a flash painted over the  *)
(* previous picture, twice the cleared buffer).                            *)
C23_OneFramePerTick ==
    LET rendered == scr.frames = 1 /\ scr.strip = "frame"
        flash == scr.shows - scr.frames
    IN /\ scr.frames <= 1 /\ flash \in {0, 4}
       /\ ppc = "ai" => scr.shows = 0
       /\ ppc = "ball" => scr.shows = 0
       /\ ppc = "draw" =>
             /\ scr.frames = 0
             /\ flash = 4 <=> (Scored1 \/ Scored2)
       /\ ppc = "winner" => rendered
       /\ ppc = "input" => (rendered \/ scr.shows = 0)
       /\ ipc # "off" => flash = 0
       /\ ipc \in Playing \ {"input"} => scr.shows = 0
       /\ ipc = "end" => rendered
       /\ ipc = "input" => (rendered \/ scr.shows = 0)

(* the tick that scored a point, after its render: five flushes *)
C23_Witness ==
    /\ ppc = "input" /\ scr.shows = 5 /\ scr.frames = 1
    /\ pong.p1_score + pong.p2_score > 0

----------------------------------------------------------------------------
(* The stop signal: KeyboardInterrupt raised inside the try of run_game    *)
(* (pong 466-507, shooter 481-533), between two steps of the loop          *)
PongPositions ==
    {"title", "countdown", "reset", "input", "ai", "ball", "draw", "winner"}

PongInterrupt ==
    /\ ppc \in PongPositions
    /\ ppc' = "stopped"
    /\ scr' = [on_interrupt(scr) EXCEPT !.cut = ppc, !.lit = scr.strip]
    /\ UNCHANGED <<pong, frame, pin, pev, ivars, svars>>

InvInterrupt ==
    /\ ipc \in InvPositions
    /\ ipc' = "stopped"
    /\ scr' = [on_interrupt(scr) EXCEPT !.cut = ipc, !.lit = scr.strip]
    /\ UNCHANGED <<game, iin, iev, pvars, svars>>

StopNext == Next \/ PongInterrupt \/ InvInterrupt

SpecStop == Init /\ [][StopNext]_vars

(* C24: when KeyboardInterrupt arrives at any point of either game's       *)
(* run_game (title, countdown, tick loop or end animation), the loop is    *)
(* aborted, the buffer is cleared and then flushed (the last flushed frame *)
(* is all black), and run_game returns without raising.                    *)
C24_StopClearsDisplay ==
    /\ (ppc = "stopped" \/ ipc = "stopped") =>
          scr.buf = "black" /\ scr.strip = "black"
    /\ scr.cut # "none" <=> (ppc = "stopped" \/ ipc = "stopped")

(* the signal arrived in the middle of a shooter tick, between             *)
(* move_aliens and alien_shoot, with the picture of the tick before on the *)
(* strip                                                                   *)
C24_Witness ==
    /\ ipc = "stopped" /\ scr.cut = "shoot" /\ scr.lit = "old"
    /\ scr.strip = "black"

----------------------------------------------------------------------------
(* Pixel Surface: calls of xy_to_index and of set_pixel with arguments     *)
(* drawn from samples, while neither game loop runs                        *)
SurfaceInit == np = clear /\ px = NoCall /\ scr = ScrInit /\ PongIdle /\ InvIdle

(* the cells xy_to_index is called with: the grid and one cell around it *)
MapCells == -1 .. WIDTH

XyToIndex ==
    /\ \E x \in MapCells, y \in MapCells :
          px' = [px EXCEPT !.fn = "xy_to_index", !.x = x, !.y = y,
                           !.idx = xy_to_index(x, y)]
    /\ UNCHANGED <<np, pvars, ivars, scr>>

SpecMapping == SurfaceInit /\ [][XyToIndex]_vars

(* every index the grid is mapped to *)
MappedIndexes == {xy_to_index(x, y) : x \in 0 .. WIDTH - 1, y \in 0 .. HEIGHT - 1}

(* C22: xy_to_index restricted to [0,16) x [0,16) is a bijection onto      *)
(* [0,256): on even rows the index is 16*y + x, on odd rows it is          *)
(* 16*y + (15 - x); for every coordinate outside the grid it returns -1.   *)
C22_SerpentineBijection ==
    /\ px.fn = "xy_to_index" =>
          /\ IF px.x \in 0 .. 15 /\ px.y \in 0 .. 15
             THEN /\ px.idx \in 0 .. 255
                  /\ px.y % 2 = 0 => px.idx = 16 * px.y + px.x
                  /\ px.y % 2 = 1 => px.idx = 16 * px.y + (15 - px.x)
             ELSE px.idx = -1
          /\ \A x \in 0 .. 15, y \in 0 .. 15 :
                xy_to_index(x, y) = px.idx => (x = px.x /\ y = px.y)
    /\ MappedIndexes = 0 .. 255

(* the first cell of row 1, mapped to the last index of that row *)
C22_Witness == px.fn = "xy_to_index" /\ px.x = 0 /\ px.y = 1 /\ px.idx = 31

(* set_pixel calls between two clear() calls *)
MaxWrites == 2

(* sample arguments: the paddle game passes numbers (fixed point here),   *)
(* the shooter passes cells                                                *)
PongCoords ==
    {-Scale, -(Scale \div 2), 0, Scale \div 2, 15 * Scale + Scale \div 2, 16 * Scale}
InvCoords == {-1, 0, 7, 15, 16}
Colors == {WHITE, RED}

PongSetPixel ==
    /\ px.writes < MaxWrites
    /\ \E x \in PongCoords, y \in PongCoords, color \in Colors :
          /\ np' = set_pixel(np, x, y, color)
          /\ px' = [fn |-> "pong.set_pixel", x |-> x, y |-> y, color |-> color,
                    idx |-> xy_to_index(int(x), int(y)), before |-> np,
                    writes |-> px.writes + 1]
    /\ UNCHANGED <<pvars, ivars, scr>>

InvSetPixel ==
    /\ px.writes < MaxWrites
    /\ \E x \in InvCoords, y \in InvCoords, color \in Colors :
          /\ np' = inv_set_pixel(np, x, y, color)
          /\ px' = [fn |-> "inv.set_pixel", x |-> x, y |-> y, color |-> color,
                    idx |-> xy_to_index(x, y), before |-> np,
                    writes |-> px.writes + 1]
    /\ UNCHANGED <<pvars, ivars, scr>>

Clear ==
    /\ px.fn # "none"
    /\ np' = clear
    /\ px' = [NoCall EXCEPT !.fn = "clear", !.before = np]
    /\ UNCHANGED <<pvars, ivars, scr>>

SurfaceNext == PongSetPixel \/ InvSetPixel \/ Clear

SpecSurface == SurfaceInit /\ [][SurfaceNext]_vars

(* the coordinate lies outside [0,16) x [0,16) *)
OutsideFix(x, y) == ~(0 <= x /\ x < WIDTH * Scale /\ 0 <= y /\ y < HEIGHT * Scale)
OutsideCells(x, y) == ~(0 <= x /\ x < WIDTH /\ 0 <= y /\ y < HEIGHT)

(* every slot of the buffer is as the last call found it *)
NoSlotChanged == \A i \in 0 .. NUM_LEDS - 1 : Slot(np, i) = Slot(px.before, i)

(* C21 as claimed: for every coordinate (x, y) outside [0,16) x [0,16) and *)
(* every colour, set_pixel(x, y, colour) leaves every slot of the pixel    *)
(* buffer unchanged, in both games (the paddle game's set_pixel truncates  *)
(* its arguments with int() before mapping).                               *)
C21_OutsideWriteDropped ==
    /\ (px.fn = "pong.set_pixel" /\ OutsideFix(px.x, px.y)) => NoSlotChanged
    /\ (px.fn = "inv.set_pixel" /\ OutsideCells(px.x, px.y)) => NoSlotChanged

====
